---- MODULE Spec2Model ----
(***************************************************************************)
(* Model of the EVE market analyser of MythicMarketMogul: the incremental  *)
(* history synchronisation of main() (conditional requests with cached     *)
(* ETag / Last-Modified validators) and the cross-region aggregation       *)
(* aggregateRegionData().                                                  *)
(*                                                                         *)
(* Numbers: prices are exact rationals [num, den] in lowest terms, so the  *)
(* division of the volume-weighted average is computed, not assumed.       *)
(* Dates are fixed-width digit strings, modelled as tuples of digits and   *)
(* ordered the way Array.prototype.sort() orders strings.                  *)
(***************************************************************************)
EXTENDS Integers, Sequences, FiniteSets, TLC

\* ===== JavaScript values =====

\* undefined / null: a missing property, a header the response does not carry
None == 0

\* Math.max / Math.min start values of the accumulators
Infinity == 1000000
NegInfinity == 0 - Infinity

\* agg.highest = entry.highest: the last entry wins
MathMaxLast(a, b) == b

MathMax(a, b) == IF a >= b THEN a ELSE b
MathMin(a, b) == IF a <= b THEN a ELSE b

\* obj[key] = val on an object modelled as a function on its own keys
Put(obj, key, val) ==
  [k \in (DOMAIN obj) \cup {key} |-> IF k = key THEN val ELSE obj[k]]

\* historyData[regionId]?.[typeId]: <<value>>, or <<>> when undefined
Get(obj, regionId, typeId) ==
  IF regionId \in DOMAIN obj /\ typeId \in DOMAIN obj[regionId]
  THEN <<obj[regionId][typeId]>>
  ELSE <<>>

\* ===== exact arithmetic on prices =====

RECURSIVE GCD(_, _)
GCD(a, b) == IF b = 0 THEN a ELSE GCD(b, a % b)

Abs(x) == IF x < 0 THEN 0 - x ELSE x

\* n / d in lowest terms, d > 0
Rat(n, d) ==
  LET g == GCD(Abs(n), Abs(d))
      s == IF d < 0 THEN 0 - 1 ELSE 1
  IN [num |-> (s * n) \div g, den |-> (s * d) \div g]

RatAdd(x, y) == Rat(x.num * y.den + y.num * x.den, x.den * y.den)
RatMulInt(x, k) == Rat(x.num * k, x.den)
RatDivInt(x, k) == Rat(x.num, x.den * k)
Zero == Rat(0, 1)

\* ===== date strings =====

\* a < b for two strings, by code unit, a proper prefix first
RECURSIVE StrLess(_, _)
StrLess(a, b) ==
  IF b = <<>> THEN FALSE
  ELSE IF a = <<>> THEN TRUE
  ELSE IF Head(a) # Head(b) THEN Head(a) < Head(b)
  ELSE StrLess(Tail(a), Tail(b))

\* the keys sorted with an inverted comparison
RECURSIVE SortedKeysDescending(_)
SortedKeysDescending(S) ==
  IF S = {} THEN <<>>
  ELSE LET m == CHOOSE x \in S : \A y \in S : x = y \/ StrLess(y, x)
       IN <<m>> \o SortedKeysDescending(S \ {m})

\* Object.keys(obj).sort() on string keys
RECURSIVE SortedKeys(_)
SortedKeys(S) ==
  IF S = {} THEN <<>>
  ELSE LET m == CHOOSE x \in S : \A y \in S : x = y \/ StrLess(x, y)
       IN <<m>> \o SortedKeys(S \ {m})

\* Object.keys(obj) on integer-like keys: ascending numeric order
RECURSIVE IntegerKeys(_)
IntegerKeys(S) ==
  IF S = {} THEN <<>>
  ELSE LET m == CHOOSE x \in S : \A y \in S : x <= y
       IN <<m>> \o IntegerKeys(S \ {m})

\* the calendar day a date string denotes
DateOrdinal(d) == 10 * d[1] + d[2]

\* ===== aggregateRegionData =====

NewAgg(date) ==
  [date |-> date, totalVolume |-> 0, weightedAvgSum |-> Zero,
   highest |-> NegInfinity, lowest |-> Infinity, orderCount |-> 0]

\* the averages summed without their volumes
AccumulateEntryUnweighted(agg, entry) ==
  [agg EXCEPT !.totalVolume = @ + entry.volume,
              !.weightedAvgSum = RatAdd(@, entry.average),
              !.highest = MathMax(@, entry.highest),
              !.lowest = MathMin(@, entry.lowest),
              !.orderCount = @ + entry.order_count]

\* the low taken from entry.highest
AccumulateEntryLowFromHigh(agg, entry) ==
  [agg EXCEPT !.totalVolume = @ + entry.volume,
              !.weightedAvgSum = RatAdd(@, RatMulInt(entry.average, entry.volume)),
              !.highest = MathMax(@, entry.highest),
              !.lowest = MathMin(@, entry.highest),
              !.orderCount = @ + entry.order_count]

AccumulateEntry(agg, entry) ==
  [agg EXCEPT !.totalVolume = @ + entry.volume,
              !.weightedAvgSum = RatAdd(@, RatMulInt(entry.average, entry.volume)),
              !.highest = MathMax(@, entry.highest),
              !.lowest = MathMin(@, entry.lowest),
              !.orderCount = @ + entry.order_count]

\* for (const entry of regionData[typeId]) { ... }
RECURSIVE AccumulateEntries(_, _)
AccumulateEntries(byDate, entries) ==
  IF entries = <<>> THEN byDate
  ELSE LET entry == Head(entries)
           date == entry.date
           withDate == IF date \in DOMAIN byDate THEN byDate
                       ELSE Put(byDate, date, NewAgg(date))
       IN AccumulateEntries(
            Put(withDate, date, AccumulateEntry(withDate[date], entry)),
            Tail(entries))

\* for (const typeId of Object.keys(regionData)) { ... }
RECURSIVE AccumulateTypes(_, _, _)
AccumulateTypes(byTypeAndDate, regionData, typeIds) ==
  IF typeIds = <<>> THEN byTypeAndDate
  ELSE LET typeId == Head(typeIds)
           withType == IF typeId \in DOMAIN byTypeAndDate THEN byTypeAndDate
                       ELSE Put(byTypeAndDate, typeId, <<>>)
       IN AccumulateTypes(
            Put(withType, typeId,
                AccumulateEntries(withType[typeId], regionData[typeId])),
            regionData, Tail(typeIds))

\* for (const regionId of Object.keys(historyData)) { ... }
RECURSIVE AccumulateRegions(_, _, _)
AccumulateRegions(byTypeAndDate, historyData, regionIds) ==
  IF regionIds = <<>> THEN byTypeAndDate
  ELSE LET regionData == historyData[Head(regionIds)]
       IN AccumulateRegions(
            AccumulateTypes(byTypeAndDate, regionData,
                            IntegerKeys(DOMAIN regionData)),
            historyData, Tail(regionIds))

\* the point emitted for one accumulator
AggPoint(agg) ==
  [date |-> agg.date,
   average |-> IF agg.totalVolume > 0
               THEN RatDivInt(agg.weightedAvgSum, agg.totalVolume)
               ELSE Zero,
   highest |-> agg.highest,
   lowest |-> agg.lowest,
   volume |-> agg.totalVolume,
   order_count |-> agg.orderCount]

\* aggregateRegionData(historyData), the regions visited in the order regionIds
aggregateRegionData(regionIds, historyData) ==
  LET byTypeAndDate == AccumulateRegions(<<>>, historyData, regionIds)
  IN [typeId \in DOMAIN byTypeAndDate |->
        LET dates == SortedKeys(DOMAIN byTypeAndDate[typeId])
        IN [k \in 1..Len(dates) |-> AggPoint(byTypeAndDate[typeId][dates[k]])]]

\* ===== JavaScript numbers of the analysis =====

\* A number is [num, den]: a rational in lowest terms when den > 0,
\* Infinity and -Infinity are 1/0 and -1/0, NaN is 0/0.
NaN == [num |-> 0, den |-> 0]
PlusInfinity == [num |-> 1, den |-> 0]
MinusInfinity == [num |-> 0 - 1, den |-> 0]
Num(n) == [num |-> n, den |-> 1]

IsNaN(x) == x.den = 0 /\ x.num = 0
IsFinite(x) == x.den # 0
Sign(n) == IF n < 0 THEN 0 - 1 ELSE IF n > 0 THEN 1 ELSE 0

\* -x
NumNeg(x) == [num |-> 0 - x.num, den |-> x.den]

\* x + y
NumAdd(x, y) ==
  IF IsNaN(x) \/ IsNaN(y) THEN NaN
  ELSE IF x.den = 0 /\ y.den = 0 THEN (IF x.num = y.num THEN x ELSE NaN)
  ELSE IF x.den = 0 THEN x
  ELSE IF y.den = 0 THEN y
  ELSE RatAdd(x, y)

\* x - y
NumSub(x, y) == NumAdd(x, NumNeg(y))

\* x * y
NumMul(x, y) ==
  IF IsNaN(x) \/ IsNaN(y) THEN NaN
  ELSE IF x.den = 0 \/ y.den = 0
  THEN (IF x.num = 0 \/ y.num = 0 THEN NaN
        ELSE [num |-> Sign(x.num) * Sign(y.num), den |-> 0])
  ELSE Rat(x.num * y.num, x.den * y.den)

\* x / y; a zero divisor is +0
NumDiv(x, y) ==
  IF IsNaN(x) \/ IsNaN(y) THEN NaN
  ELSE IF x.den = 0 /\ y.den = 0 THEN NaN
  ELSE IF y.den = 0 THEN Zero
  ELSE IF x.den = 0
  THEN [num |-> Sign(x.num) * (IF y.num < 0 THEN 0 - 1 ELSE 1), den |-> 0]
  ELSE IF y.num = 0
  THEN (IF x.num = 0 THEN NaN ELSE [num |-> Sign(x.num), den |-> 0])
  ELSE Rat(x.num * y.den, x.den * y.num)

\* x < y, x <= y, x > y, x >= y: false as soon as an operand is NaN
NumLt(x, y) ==
  /\ ~IsNaN(x)
  /\ ~IsNaN(y)
  /\ x # y
  /\ IF x.den = 0 THEN x = MinusInfinity
     ELSE IF y.den = 0 THEN y = PlusInfinity
     ELSE x.num * y.den < y.num * x.den
NumLe(x, y) == ~IsNaN(x) /\ ~IsNaN(y) /\ (x = y \/ NumLt(x, y))
NumGt(x, y) == NumLt(y, x)
NumGe(x, y) == NumLe(y, x)

\* Math.min(x, y), Math.max(x, y) on numbers
NumMin(x, y) == IF IsNaN(x) \/ IsNaN(y) THEN NaN ELSE IF NumLt(y, x) THEN y ELSE x
NumMax(x, y) == IF IsNaN(x) \/ IsNaN(y) THEN NaN ELSE IF NumLt(x, y) THEN y ELSE x

\* ===== calculateInvestmentScore =====

\* the sum of the components before the final clamp
ScoreSum(priceChange, volatility, momentum) ==
  LET base == Num(50)
      withVolatility ==
        IF NumGe(volatility, Num(20))
        THEN NumAdd(base, Num(30))
        ELSE NumAdd(base, NumMul(NumDiv(volatility, Num(20)), Num(30)))
      withMomentum ==
        NumAdd(withVolatility, NumMin(NumMul(momentum, Num(3)), Num(30)))
      withPriceChange ==
        IF NumGe(priceChange, Num(40))
        THEN NumAdd(withMomentum, Num(30))
        ELSE IF NumGt(priceChange, Num(0))
        THEN NumAdd(withMomentum, NumMul(NumDiv(priceChange, Num(40)), Num(30)))
        ELSE withMomentum
  IN IF NumGt(momentum, Num(10)) /\ NumGt(priceChange, Num(30))
        /\ NumGt(volatility, Num(15))
     THEN NumAdd(withPriceChange, Num(10))
     ELSE withPriceChange

\* return score: the final Math.max(0, Math.min(100, score)) left out
calculateInvestmentScoreUnclamped(priceChange, volatility, momentum) ==
  ScoreSum(priceChange, volatility, momentum)

\* the momentum component floored at 0: Math.max(0, Math.min(momentum * 3, 30))
calculateInvestmentScoreFlooredMomentum(priceChange, volatility, momentum) ==
  NumMax(Num(0), NumMin(Num(100),
    ScoreSum(priceChange, volatility, NumMax(Num(0), momentum))))

calculateInvestmentScore(priceChange, volatility, momentum) ==
  NumMax(Num(0), NumMin(Num(100), ScoreSum(priceChange, volatility, momentum)))

\* ===== Math functions and number formatting =====

\* the largest k in lo..hi with k * k <= n
RECURSIVE ISqrt(_, _, _)
ISqrt(n, lo, hi) ==
  IF lo >= hi THEN lo
  ELSE LET mid == (lo + hi + 1) \div 2
       IN IF mid * mid <= n THEN ISqrt(n, mid, hi) ELSE ISqrt(n, lo, mid - 1)

\* Math.sqrt keeps this many steps per unit of the denominator
SqrtScale == 10

\* Math.sqrt(x): exact on squares of rationals, rounded down to a multiple of
\* 1 / (den * SqrtScale) otherwise
MathSqrt(x) ==
  IF IsNaN(x) THEN NaN
  ELSE IF x.den = 0 THEN (IF x.num > 0 THEN PlusInfinity ELSE NaN)
  ELSE IF x.num < 0 THEN NaN
  ELSE Rat(ISqrt(x.num * x.den * SqrtScale * SqrtScale, 0, 46340), x.den * SqrtScale)

\* Math.pow(x, 2)
MathPow2(x) == NumMul(x, x)

\* 10 ^ digits
RECURSIVE Pow10(_)
Pow10(digits) == IF digits = 0 THEN 1 ELSE 10 * Pow10(digits - 1)

\* the nearest multiple of 1 / 10^digits, a tie going away from zero
RoundTo(x, digits) ==
  IF ~IsFinite(x) THEN x
  ELSE LET scale == Pow10(digits)
           n == (2 * Abs(x.num) * scale + x.den) \div (2 * x.den)
       IN Rat(Sign(x.num) * n, scale)

\* Math.round(x): the nearest integer, a tie going up
MathRound(x) ==
  IF ~IsFinite(x) THEN x
  ELSE LET twice == 2 * x.num + x.den
           d == 2 * x.den
       IN Num((twice - (twice % d)) \div d)

\* a string holding a number: [str |-> the number the digits denote]
\* x.toFixed(digits): "NaN" and "Infinity" for the non-finite numbers
ToFixed(x, digits) == [str |-> RoundTo(x, digits)]

\* String(x): the shortest digits that read back as x
NumberToString(x) == [str |-> x]

\* parseFloat(s) for a string s written by toFixed or String
ParseFloat(s) == s.str

\* ===== Array.prototype.sort =====

\* the comparator (a, b) => key(a) - key(b) on the elements at positions a
\* and b; a NaN result counts as 0
SortCompare(keys, a, b) ==
  LET v == NumSub(keys[a], keys[b])
  IN IF IsNaN(v) THEN 0 ELSE Sign(v.num)

\* the length of the run the array starts with (non-descending, or strictly
\* descending), idx being the position examined next
RECURSIVE CountRun(_, _, _)
CountRun(keys, descending, idx) ==
  IF idx > Len(keys) THEN idx - 1
  ELSE LET order == SortCompare(keys, idx, idx - 1)
       IN IF (descending /\ order >= 0) \/ (~descending /\ order < 0)
          THEN idx - 1
          ELSE CountRun(keys, descending, idx + 1)

\* the pivot placed before the elements it compares equal to
RECURSIVE BinarySearchBeforeEqual(_, _, _, _, _)
BinarySearchBeforeEqual(keys, perm, pivot, left, right) ==
  IF left >= right THEN left
  ELSE LET mid == left + ((right - left) \div 2)
       IN IF SortCompare(keys, pivot, perm[mid]) <= 0
          THEN BinarySearchBeforeEqual(keys, perm, pivot, left, mid)
          ELSE BinarySearchBeforeEqual(keys, perm, pivot, mid + 1, right)

\* binary insertion: the place of the pivot in perm[left .. right - 1], after
\* the elements it compares equal to
RECURSIVE BinarySearch(_, _, _, _, _)
BinarySearch(keys, perm, pivot, left, right) ==
  IF left >= right THEN left
  ELSE LET mid == left + ((right - left) \div 2)
       IN IF SortCompare(keys, pivot, perm[mid]) < 0
          THEN BinarySearch(keys, perm, pivot, left, mid)
          ELSE BinarySearch(keys, perm, pivot, mid + 1, right)

\* the elements from position start on inserted one by one
RECURSIVE BinaryInsertionSort(_, _, _)
BinaryInsertionSort(keys, perm, start) ==
  IF start > Len(perm) THEN perm
  ELSE LET pivot == perm[start]
           left == BinarySearch(keys, perm, pivot, 1, start)
       IN BinaryInsertionSort(
            keys,
            SubSeq(perm, 1, left - 1) \o <<pivot>> \o SubSeq(perm, left, start - 1)
              \o SubSeq(perm, start + 1, Len(perm)),
            start + 1)

\* the positions 1..Len(keys) in sorted order: the sort of an array shorter
\* than 64 (one run, extended by binary insertion)
SortedPositions(keys) ==
  IF Len(keys) < 2 THEN [k \in 1..Len(keys) |-> k]
  ELSE LET descending == SortCompare(keys, 2, 1) < 0
           runLength == CountRun(keys, descending, 3)
           perm == [k \in 1..Len(keys) |->
                      IF descending /\ k <= runLength THEN runLength + 1 - k ELSE k]
       IN BinaryInsertionSort(keys, perm, runLength + 1)

\* array.sort((a, b) => key(a) - key(b)), keys[k] being key(array[k])
ArraySort(array, keys) ==
  LET perm == SortedPositions(keys)
  IN [k \in 1..Len(array) |-> array[perm[k]]]

\* ===== the analysis functions =====

\* prices.reduce((a, b) => a + b, 0): the additions are exact, so the sum of
\* the two halves is the sum the left-to-right fold arrives at
RECURSIVE NumSum(_)
NumSum(prices) ==
  IF prices = <<>> THEN Zero
  ELSE IF Len(prices) = 1 THEN NumAdd(Zero, prices[1])
  ELSE LET half == Len(prices) \div 2
       IN NumAdd(NumSum(SubSeq(prices, 1, half)),
                 NumSum(SubSeq(prices, half + 1, Len(prices))))

\* ((current - reference) / reference) * 100
PercentChange(current, reference) ==
  NumMul(NumDiv(NumSub(current, reference), reference), Num(100))

calculatePriceChange(prices) ==
  IF Len(prices) < 2 THEN Zero
  ELSE PercentChange(prices[Len(prices)], prices[1])

calculateVolatility(prices) ==
  IF Len(prices) < 2 THEN Zero
  ELSE LET mean == NumDiv(NumSum(prices), Num(Len(prices)))
           squaredDiffs == [k \in 1..Len(prices) |-> MathPow2(NumSub(prices[k], mean))]
           variance == NumDiv(NumSum(squaredDiffs), Num(Len(prices)))
           stdDev == MathSqrt(variance)
       IN NumMul(NumDiv(stdDev, mean), Num(100))

\* the comparison of the two halves of a series shorter than 60 points
calculateMomentumPartialWindow(prices) ==
  IF Len(prices) < 2 THEN Zero
  ELSE LET n == Len(prices)
           half == IF n >= 60 THEN 30 ELSE n \div 2
           recentAvg == NumDiv(NumSum(SubSeq(prices, n - half + 1, n)), Num(half))
           previousAvg ==
             NumDiv(NumSum(SubSeq(prices, n - 2 * half + 1, n - half)), Num(half))
       IN PercentChange(recentAvg, previousAvg)

calculateMomentum(prices) ==
  IF Len(prices) < 60 THEN Zero
  ELSE LET n == Len(prices)
           recent30 == SubSeq(prices, n - 29, n)
           previous30 == SubSeq(prices, n - 59, n - 30)
           recent30Avg == NumDiv(NumSum(recent30), Num(Len(recent30)))
           previous30Avg == NumDiv(NumSum(previous30), Num(Len(previous30)))
       IN PercentChange(recent30Avg, previous30Avg)

\* categorizeVolume of the multi-region analyser
categorizeVolume(volume) ==
  IF volume >= 10000 THEN "Very High"
  ELSE IF volume >= 1000 THEN "High"
  ELSE IF volume >= 100 THEN "Medium"
  ELSE IF volume >= 10 THEN "Low"
  ELSE "Very Low"

\* the risk level taken from the volatility as displayed, volatility.toFixed(2)
RiskLevelFromDisplayed(volatility) ==
  IF NumGe(ParseFloat(ToFixed(volatility, 2)), Num(15)) THEN "high" ELSE "low"

\* parseFloat(volatility) >= 15 ? 'high' : 'low'
RiskLevel(volatility) ==
  IF NumGe(ParseFloat(NumberToString(volatility)), Num(15)) THEN "high" ELSE "low"

\* history.sort((a, b) => new Date(a.date) - new Date(b.date))
SortByDate(history) ==
  ArraySort(history, [k \in 1..Len(history) |-> Num(DateOrdinal(history[k].date))])

\* the local variables of analyzeItem after the metric calls
Metrics(sorted) ==
  LET prices == [k \in 1..Len(sorted) |-> sorted[k].average]
      n == Len(prices)
      currentPrice == prices[n]
      price7dAgo == prices[n - 6]
      price30dAgo == prices[n - 29]
  IN [priceChange |-> calculatePriceChange(prices),
      volatility |-> calculateVolatility(prices),
      momentum |-> calculateMomentum(prices),
      priceChange7d |->
        IF n >= 7 /\ NumGt(price7dAgo, Num(0))
        THEN PercentChange(currentPrice, price7dAgo) ELSE Zero,
      priceChange30d |->
        IF n >= 30 /\ NumGt(price30dAgo, Num(0))
        THEN PercentChange(currentPrice, price30dAgo) ELSE Zero]

\* analyzeItem(history, itemInfo) of the multi-region analyser: <<>> for null,
\* <<the analysis>> otherwise
analyzeItem(history, itemInfo) ==
  IF history = <<>> THEN <<>>
  ELSE LET sorted == SortByDate(history)
           m == Metrics(sorted)
           last == sorted[Len(sorted)]
       IN <<[id |-> itemInfo.id,
             currentPrice |-> MathRound(last.average),
             priceChange |-> ToFixed(m.priceChange, 2),
             priceChange7d |-> ToFixed(m.priceChange7d, 2),
             priceChange30d |-> ToFixed(m.priceChange30d, 2),
             volatility |-> ToFixed(m.volatility, 2),
             momentum |-> ToFixed(m.momentum, 2),
             volume |-> last.volume,
             volumeCategory |-> categorizeVolume(last.volume),
             investmentScore |->
               ToFixed(calculateInvestmentScore(m.priceChange, m.volatility,
                                                m.momentum), 1),
             dataPoints |-> Len(sorted),
             riskLevel |-> RiskLevel(m.volatility)]>>

\* ===== the single-region analyser =====

\* A key of the daily price object is a string of code units: 0..9 are the
\* digits, NonDigit is any other character.
NonDigit == 10

\* the digits a string starts with
RECURSIVE LeadingDigits(_)
LeadingDigits(key) ==
  IF key = <<>> \/ Head(key) >= NonDigit THEN <<>>
  ELSE <<Head(key)>> \o LeadingDigits(Tail(key))

\* the number written by a string of digits
RECURSIVE DigitsValue(_)
DigitsValue(digits) ==
  IF digits = <<>> THEN 0
  ELSE 10 * DigitsValue(SubSeq(digits, 1, Len(digits) - 1)) + digits[Len(digits)]

\* parseInt(timestamp): the leading digits, NaN when there is none
ParseInt(key) ==
  IF LeadingDigits(key) = <<>> THEN NaN ELSE Num(DigitsValue(LeadingDigits(key)))

\* a price in arithmetic: null (the empty option) converts to 0
ToNumber(price) == IF price = <<>> THEN Zero ELSE price[1]

\* convertToArray(priceData): Object.entries in the order of the object's
\* keys, mapped to points and sorted by a.timestamp - b.timestamp
convertToArray(priceData) ==
  LET points == [k \in 1..Len(priceData) |->
                   [timestamp |-> ParseInt(priceData[k].key),
                    price |-> priceData[k].price]]
  IN ArraySort(points, [k \in 1..Len(points) |-> points[k].timestamp])

\* categorizeVolume of the single-region analyser
categorizeVolumeOSRS(volume) ==
  IF volume >= 1000000 THEN "Very High"
  ELSE IF volume >= 100000 THEN "High"
  ELSE IF volume >= 10000 THEN "Medium"
  ELSE IF volume >= 1000 THEN "Low"
  ELSE "Very Low"

\* analyzeItem(priceData, itemInfo) of the single-region analyser, priceData
\* being <<>> or <<[daily |-> ...]>>: <<>> for null, <<the analysis>> otherwise
analyzeItemOSRS(priceData, itemInfo) ==
  IF priceData = <<>> THEN <<>>
  ELSE LET points == convertToArray(priceData[1].daily)
           prices == [k \in 1..Len(points) |-> ToNumber(points[k].price)]
           priceChange == calculatePriceChange(prices)
           volatility == calculateVolatility(prices)
           momentum == calculateMomentum(prices)
       IN IF Len(points) = 0 THEN <<>>
          ELSE <<[id |-> itemInfo.id,
                  currentPrice |-> points[Len(points)].price,
                  startPrice |-> points[1].price,
                  priceChange |-> ToFixed(priceChange, 2),
                  volume |-> itemInfo.volume,
                  volumeCategory |-> categorizeVolumeOSRS(itemInfo.volume),
                  volatility |-> ToFixed(volatility, 2),
                  momentum |-> ToFixed(momentum, 2),
                  investmentScore |->
                    ToFixed(calculateInvestmentScore(priceChange, volatility, momentum), 1),
                  dataPoints |-> Len(points),
                  members |-> itemInfo.members,
                  riskLevel |-> RiskLevel(volatility)]>>

\* ===== the ranked shortlists =====

\* results.filter(segment).sort((a, b) => parseFloat(b.investmentScore) -
\* parseFloat(a.investmentScore)).slice(0, size)
Shortlist(segment, size) ==
  LET sorted ==
        ArraySort(segment,
                  [k \in 1..Len(segment) |->
                     NumNeg(ParseFloat(segment[k].investmentScore))])
  IN SubSeq(sorted, 1, IF Len(sorted) < size THEN Len(sorted) ELSE size)

IsHighRisk(r) == r.riskLevel = "high"
IsLowRisk(r) == r.riskLevel = "low"
IsHighRiskMembers(r) == r.members /\ r.riskLevel = "high"
IsLowRiskMembers(r) == r.members /\ r.riskLevel = "low"
IsHighRiskF2P(r) == ~r.members /\ r.riskLevel = "high"
IsLowRiskF2P(r) == ~r.members /\ r.riskLevel = "low"

\* the shortlists of runEVEAutomated
ShortlistsEVE(results) ==
  [highRisk |-> Shortlist(SelectSeq(results, IsHighRisk), 5),
   lowRisk |-> Shortlist(SelectSeq(results, IsLowRisk), 5)]

\* the shortlists of runOSRSAutomated
ShortlistsOSRS(results) ==
  [highRiskMembers |-> Shortlist(SelectSeq(results, IsHighRiskMembers), 3),
   lowRiskMembers |-> Shortlist(SelectSeq(results, IsLowRiskMembers), 3),
   highRiskF2P |-> Shortlist(SelectSeq(results, IsHighRiskF2P), 3),
   lowRiskF2P |-> Shortlist(SelectSeq(results, IsLowRiskF2P), 3)]

\* ===== bounds and input sets of the aggregation runs =====

\* number of entries placed in the regional series of one input
MaxEntries == 3

\* region keys of eve-history.json, type ids of eve-items.json
RegionIds == {10, 20, 30}
TypeIds == {1, 2}

\* entry.date values, "09" and "10" of a YYYY-MM-DD string
Dates == {<<0, 9>>, <<1, 0>>}

Entry(date, average, highest, lowest, volume, order_count) ==
  [date |-> date, average |-> average, highest |-> highest,
   lowest |-> lowest, volume |-> volume, order_count |-> order_count]

\* the entries of the ESI history responses: a day without trade, two days
\* with the same average, two quotes of one day with different averages
Entries ==
  {Entry(<<0, 9>>, Rat(10, 1), 12, 9, 0, 0),
   Entry(<<0, 9>>, Rat(10, 1), 11, 10, 2, 1),
   Entry(<<1, 0>>, Rat(10, 1), 11, 10, 2, 1),
   Entry(<<1, 0>>, Rat(25, 1), 30, 8, 3, 2)}

\* all orders in which the keys S can be enumerated
Orders(S) ==
  {o \in [1..Cardinality(S) -> S] : \A a, b \in DOMAIN o : a # b => o[a] # o[b]}

\* ===== bounds and input sets of the sync runs =====

\* number of executions of main() in one behaviour
MaxRuns == 2

\* eve-regions.json and eve-items.json: name -> id, in file order
regionsData == <<10, 20>>
itemsData == <<1, 2>>
totalRegions == Len(regionsData)
totalItems == Len(itemsData)

\* request budget of one run (scaled down from the source's 10000)
NUMBER_OF_ITEMS_TO_PROCESS == 3

\* HTTP statuses the upstream answers with
Statuses == {200, 304, 404, 429, 500}

\* response.ok
IsOk(status) == status >= 200 /\ status <= 299

\* the history the upstream delivers in run n: await response.json()
ResponseBody(n) ==
  <<[date |-> <<0, 9>>, average |-> Rat(10 + n, 1), highest |-> 20 + n,
     lowest |-> n, volume |-> n, order_count |-> 1]>>

\* the validators the upstream attaches to its 200 answers during one run:
\* an entity tag, a last-modified date, both or neither
ValidatorPolicies == [etag : BOOLEAN, lastModified : BOOLEAN]

\* the upstream's answers to one request of run n: a 200 with the run's
\* validators, the other statuses (304 answers a conditional request only),
\* or no answer at all (fetch rejects)
Responses(n, conditional, policy) ==
  {[threw |-> FALSE, status |-> 200, body |-> ResponseBody(n),
    etag |-> IF policy.etag THEN n ELSE None,
    lastModified |-> IF policy.lastModified THEN n ELSE None]}
  \cup
  {[threw |-> FALSE, status |-> st, body |-> <<>>, etag |-> None, lastModified |-> None] :
     st \in (IF conditional THEN Statuses ELSE Statuses \ {304}) \ {200}}
  \cup
  {[threw |-> TRUE, status |-> None, body |-> <<>>, etag |-> None, lastModified |-> None]}

VARIABLES
  rawHistoryData,   \* runEVEAutomated: the parsed history file / the aggregator's input
  aggregated,       \* runEVEAutomated: historyData = aggregateRegionData(rawHistoryData)
  remerged,         \* the aggregation of `aggregated` with itself as two regions
  aggPc,            \* "build", "aggregated" or "merged"
  histFile,         \* data/eve-history.json: [status, data]
  etagFile,         \* data/eve-etags.json: [status, data]
  catalogFiles,     \* eve-items.json and eve-regions.json: "ok" or "missing"
  upstream,         \* the validators the upstream sends in the current run
  historyData,      \* main: historyData
  etagData,         \* main: etagData
  pc,               \* position of main()
  r, i,             \* main: loop indexes
  requestCount, fetched, skipped, errors,
  run,              \* number of the current execution of main()
  loadedHistory,    \* history: historyData as loaded at the start of the run
  loadedEtags,      \* history: etagData as loaded at the start of the run
  log               \* history: the requests of the run, in order, with their answers

VARIABLES
  scoreArgs,        \* calculateInvestmentScore: priceChange, volatility, momentum
  score             \* calculateInvestmentScore: <<the returned score>>, <<>> before the call

VARIABLES
  itemHistory,      \* analyzeItem: the history passed in, oldest day first
  metrics,          \* analyzeItem: priceChange, volatility, momentum, priceChange7d/30d
  analysis,         \* analyzeItem: <<the returned analysis>>, <<>> for null
  analysisPc        \* "input" before the call of analyzeItem, "analysed" after it

VARIABLES
  results,          \* runEVEAutomated: results, in push order
  shortlists,       \* runEVEAutomated: highRisk, lowRisk
  osrsResults,      \* runOSRSAutomated: results, in push order
  osrsShortlists,   \* runOSRSAutomated: the four shortlists
  rankPc            \* "collect" while items are analysed, "ranked" after the sorting

VARIABLES
  priceData,        \* convertToArray: the daily price object, entries in key order
  prices,           \* analyzeItem (single-region): prices = convertToArray(priceData.daily)
  osrsAnalysis,     \* analyzeItem (single-region): <<the analysis>>, <<>> for null
  convertPc         \* "input" before the call of analyzeItem, "converted" after it

VARIABLES
  osrsDb,           \* main (single-region): the item database the fetch returns, by id
  osrsFetch,        \* main (single-region): "ok" or "fail", the outcome of the fetch
  osrsHistFile,     \* data/osrs-history.json: [status, data], data by item id
  osrsReportFails,  \* main (single-region): writing the report or the newsletter throws
  osrsRecord,       \* osrs-results.json as this run wrote it: <<record>>, <<>> if not written
  osrsExit,         \* <<the exit code>> once the process has ended, <<>> before
  osrsPc            \* main (single-region): "start", "report", "done", "failed", "exited"

VARIABLES
  sorterRegions,    \* data/eve-regions.json: the entries [name, id] in file order
  sorterItems,      \* data/eve-items.json: the entries [name, typeId] in file order
  pageCounts,       \* the X-Pages answer per region name, <<>> when the request fails
  topOrders,        \* the type ids of the orders the top region returns, in order
  sorterRegionsData, \* main (sorter): regionsData as loaded
  sorterItemsData,  \* main (sorter): itemsData as loaded
  sortedRegionEntries, \* main (sorter): the region entries after the sort
  sorterPc          \* main (sorter): "start", "regions", "done"

VARIABLES
  popScript,        \* which population script runs: "osrs" or "eve"
  popFile,          \* the output file (osrs-history.json, eve-history.json): [status, data]
  popHistoryData,   \* populate: historyData
  popLoaded,        \* history: the entries the output file held before the run
  popIndex,         \* populate: i, the number of items done
  popLog,           \* history: the requests of the run, in order, with answer and outcome
  popExit,          \* <<the exit code>> once the process has ended, <<>> before
  popPc             \* populate: "start", "loop", "done", "exited"

VARIABLES
  clock,            \* the instant of the system clock, in parts of a day
  lastCall          \* history: <<the latest updateLocalHistory>>, <<>> once time passed

scoreVars == <<scoreArgs, score>>
historyVars == <<clock, lastCall>>
populateVars == <<popScript, popFile, popHistoryData, popLoaded, popIndex, popLog,
                  popExit, popPc>>
sorterVars == <<sorterRegions, sorterItems, pageCounts, topOrders, sorterRegionsData,
                sorterItemsData, sortedRegionEntries, sorterPc>>
osrsVars == <<osrsDb, osrsFetch, osrsHistFile, osrsReportFails, osrsRecord,
              osrsExit, osrsPc>>
convertVars == <<priceData, prices, osrsAnalysis, convertPc>>
itemVars == <<itemHistory, metrics, analysis, analysisPc>>
rankVars == <<results, shortlists, osrsResults, osrsShortlists, rankPc>>
analysisVars == <<scoreVars, itemVars, rankVars, convertVars, osrsVars,
                 sorterVars, populateVars, historyVars>>
aggVars == <<rawHistoryData, aggregated, remerged, aggPc>>
storeVars == <<histFile, etagFile, catalogFiles>>
envVars == <<upstream>>
mainVars == <<historyData, etagData, pc, r, i, requestCount, fetched, skipped,
              errors, run, loadedHistory, loadedEtags, log>>
vars == <<aggVars, storeVars, envVars, mainVars, analysisVars>>

\* no analysis function has been called
IdleScore ==
  /\ scoreArgs = [priceChange |-> Zero, volatility |-> Zero, momentum |-> Zero]
  /\ score = <<>>

\* the locals of analyzeItem before the metric calls
NoMetrics ==
  [priceChange |-> Zero, volatility |-> Zero, momentum |-> Zero,
   priceChange7d |-> Zero, priceChange30d |-> Zero]

IdleItem ==
  /\ itemHistory = <<>>
  /\ metrics = NoMetrics
  /\ analysis = <<>>
  /\ analysisPc = "input"

\* const results = []
IdleRank ==
  /\ results = <<>>
  /\ shortlists = [highRisk |-> <<>>, lowRisk |-> <<>>]
  /\ osrsResults = <<>>
  /\ osrsShortlists = [highRiskMembers |-> <<>>, lowRiskMembers |-> <<>>,
                       highRiskF2P |-> <<>>, lowRiskF2P |-> <<>>]
  /\ rankPc = "collect"

IdleConvert ==
  /\ priceData = <<>>
  /\ prices = <<>>
  /\ osrsAnalysis = <<>>
  /\ convertPc = "input"

IdleOsrs ==
  /\ osrsDb = <<>>
  /\ osrsFetch = "ok"
  /\ osrsHistFile = [status |-> "missing", data |-> <<>>]
  /\ osrsReportFails = FALSE
  /\ osrsRecord = <<>>
  /\ osrsExit = <<>>
  /\ osrsPc = "start"

IdleSorter ==
  /\ sorterRegions = <<>>
  /\ sorterItems = <<>>
  /\ pageCounts = <<>>
  /\ topOrders = <<>>
  /\ sorterRegionsData = <<>>
  /\ sorterItemsData = <<>>
  /\ sortedRegionEntries = <<>>
  /\ sorterPc = "start"

IdlePopulate ==
  /\ popScript = "osrs"
  /\ popFile = [status |-> "missing", data |-> <<>>]
  /\ popHistoryData = <<>>
  /\ popLoaded = <<>>
  /\ popIndex = 0
  /\ popLog = <<>>
  /\ popExit = <<>>
  /\ popPc = "start"

IdleHistory ==
  /\ clock = 0
  /\ lastCall = <<>>

IdleAnalysis ==
  /\ IdleScore
  /\ IdleItem
  /\ IdleRank
  /\ IdleConvert
  /\ IdleOsrs
  /\ IdleSorter
  /\ IdlePopulate
  /\ IdleHistory

\* ===== the aggregation runs =====

InitStore ==
  /\ histFile \in {[status |-> st, data |-> <<>>] : st \in {"missing", "corrupt"}}
  /\ etagFile \in {[status |-> st, data |-> <<>>] : st \in {"missing", "corrupt"}}
  /\ catalogFiles \in {"ok", "missing"}
  /\ upstream = [etag |-> TRUE, lastModified |-> TRUE]

InitMain ==
  /\ historyData = <<>>
  /\ etagData = <<>>
  /\ pc = "start"
  /\ r = 0
  /\ i = 0
  /\ requestCount = 0
  /\ fetched = 0
  /\ skipped = 0
  /\ errors = 0
  /\ run = 1
  /\ loadedHistory = <<>>
  /\ loadedEtags = <<>>
  /\ log = <<>>

\* the history main() leaves before any fetch: an empty object for every region
InitAgg ==
  /\ rawHistoryData = [regionId \in RegionIds |-> <<>>]
  /\ aggregated = <<>>
  /\ remerged = <<>>
  /\ aggPc = "build"

\* historyData[regionId]?.[typeId] ?? []
SeriesOf(hd, regionId, typeId) ==
  IF regionId \in DOMAIN hd /\ typeId \in DOMAIN hd[regionId]
  THEN hd[regionId][typeId]
  ELSE <<>>

\* number of entries of an input
RECURSIVE CountEntries(_, _)
CountEntries(hd, pairs) ==
  IF pairs = {} THEN 0
  ELSE LET p == CHOOSE x \in pairs : TRUE
       IN Len(SeriesOf(hd, p[1], p[2])) + CountEntries(hd, pairs \ {p})

\* one more entry in the series of (regionId, typeId) of the input
AddEntry(regionId, typeId, entry) ==
  /\ aggPc = "build"
  /\ CountEntries(rawHistoryData, RegionIds \X TypeIds) < MaxEntries
  /\ LET regionData == IF regionId \in DOMAIN rawHistoryData
                       THEN rawHistoryData[regionId] ELSE <<>>
     IN rawHistoryData' =
          Put(rawHistoryData, regionId,
              Put(regionData, typeId,
                  Append(SeriesOf(rawHistoryData, regionId, typeId), entry)))
  /\ UNCHANGED <<aggregated, remerged, aggPc, storeVars, envVars, mainVars, analysisVars>>

\* const historyData = aggregateRegionData(rawHistoryData), for one key order
Aggregate(regionIds) ==
  /\ aggPc \in {"build", "aggregated"}
  /\ aggregated' = aggregateRegionData(regionIds, rawHistoryData)
  /\ aggPc' = "aggregated"
  /\ UNCHANGED <<rawHistoryData, remerged, storeVars, envVars, mainVars, analysisVars>>

\* the aggregated series merged against itself as two fictitious regions
MergeSelf ==
  /\ aggPc = "aggregated"
  /\ remerged' = aggregateRegionData(<<1, 2>>, <<aggregated, aggregated>>)
  /\ aggPc' = "merged"
  /\ UNCHANGED <<rawHistoryData, aggregated, storeVars, envVars, mainVars, analysisVars>>

NextAgg ==
  \/ \E regionId \in RegionIds, typeId \in TypeIds, entry \in Entries :
       AddEntry(regionId, typeId, entry)
  \/ \E regionIds \in Orders(DOMAIN rawHistoryData) : Aggregate(regionIds)
  \/ MergeSelf

InitAggSpec ==
  /\ InitAgg
  /\ InitMain
  /\ histFile = [status |-> "missing", data |-> <<>>]
  /\ etagFile = [status |-> "missing", data |-> <<>>]
  /\ catalogFiles = "ok"
  /\ upstream = [etag |-> TRUE, lastModified |-> TRUE]
  /\ IdleAnalysis

SpecAgg == InitAggSpec /\ [][NextAgg]_vars

\* ===== properties of the aggregation =====

\* the positions <<regionId, k>> of the entries of item typeId (on day date)
Positions(typeId) ==
  {<<regionId, k>> \in RegionIds \X (1..MaxEntries + 1) :
     k <= Len(SeriesOf(rawHistoryData, regionId, typeId))}
EntryAt(typeId, p) == rawHistoryData[p[1]][typeId][p[2]]
PositionsOn(typeId, date) ==
  {p \in Positions(typeId) : EntryAt(typeId, p).date = date}
InputDates(typeId) == {EntryAt(typeId, p).date : p \in Positions(typeId)}

\* the aggregated series of an item, empty when the item has none
SeriesIn(result, typeId) ==
  IF typeId \in DOMAIN result THEN result[typeId] ELSE <<>>

RECURSIVE SumOf(_)
SumOf(f) ==
  IF DOMAIN f = {} THEN 0
  ELSE LET x == CHOOSE y \in DOMAIN f : TRUE
       IN f[x] + SumOf([y \in (DOMAIN f) \ {x} |-> f[y]])

\* C7: for every item the dates of the aggregated series are exactly the
\* dates of the item's regional series, each once, in ascending calendar order.
C7_DatesAreUnionSorted ==
  aggPc # "build" =>
    \A typeId \in TypeIds :
      LET out == SeriesIn(aggregated, typeId)
      IN /\ {out[k].date : k \in 1..Len(out)} = InputDates(typeId)
         /\ \A j, k \in 1..Len(out) :
              j < k => DateOrdinal(out[j].date) < DateOrdinal(out[k].date)
         /\ (typeId \in DOMAIN aggregated) =
              (\E regionId \in DOMAIN rawHistoryData :
                 typeId \in DOMAIN rawHistoryData[regionId])

\* an item whose days arrive out of order and from two regions was aggregated
C7_Witness ==
  /\ aggPc = "aggregated"
  /\ \E typeId \in TypeIds, ra, rb \in RegionIds :
       /\ ra # rb
       /\ Len(SeriesOf(rawHistoryData, ra, typeId)) = 2
       /\ rawHistoryData[ra][typeId][1].date = <<1, 0>>
       /\ rawHistoryData[ra][typeId][2].date = <<0, 9>>
       /\ Len(SeriesOf(rawHistoryData, rb, typeId)) = 1
       /\ Len(aggregated[typeId]) = 2

\* C8: every aggregated point carries the summed volume and order count, the
\* maximal high, the minimal low, and the volume-weighted average, which is 0
\* on a day without volume; equal regional averages aggregate to that average.
C8_PointValues ==
  aggPc # "build" =>
    \A typeId \in DOMAIN aggregated :
      \A k \in 1..Len(aggregated[typeId]) :
        LET point == aggregated[typeId][k]
            ps == PositionsOn(typeId, point.date)
            volume == SumOf([p \in ps |-> EntryAt(typeId, p).volume])
            weighted == SumOf([p \in ps |->
                          EntryAt(typeId, p).average.num * EntryAt(typeId, p).volume])
        IN /\ ps # {}
           /\ point.volume = volume
           /\ point.order_count = SumOf([p \in ps |-> EntryAt(typeId, p).order_count])
           /\ \E p \in ps : point.highest = EntryAt(typeId, p).highest
           /\ \A p \in ps : point.highest >= EntryAt(typeId, p).highest
           /\ \E p \in ps : point.lowest = EntryAt(typeId, p).lowest
           /\ \A p \in ps : point.lowest <= EntryAt(typeId, p).lowest
           /\ point.average.den > 0
           /\ GCD(Abs(point.average.num), point.average.den) = 1
           /\ volume > 0 => point.average.num * volume = weighted * point.average.den
           /\ volume = 0 => point.average = Zero
           /\ \A a \in {EntryAt(typeId, p).average : p \in ps} :
                (volume > 0 /\ \A p \in ps : EntryAt(typeId, p).average = a)
                  => point.average = a

\* one item has a day without volume (average 0) and a day on which two
\* regions with averages 10 (volume 2) and 25 (volume 3) merge to 19
C8_Witness ==
  /\ aggPc = "aggregated"
  /\ \E typeId \in DOMAIN aggregated :
       /\ Len(aggregated[typeId]) = 2
       /\ aggregated[typeId][1].volume = 0
       /\ aggregated[typeId][1].average = Zero
       /\ aggregated[typeId][2].average = Rat(19, 1)
       /\ aggregated[typeId][2].volume = 5

\* C9: every order of the regions yields the aggregated series of every item.
C9_Commutative ==
  aggPc # "build" =>
    \A regionIds \in Orders(DOMAIN rawHistoryData) :
      aggregateRegionData(regionIds, rawHistoryData) = aggregated

\* three regions with different quotes of the same item and day were aggregated
C9_Witness ==
  /\ aggPc = "aggregated"
  /\ \E typeId \in TypeIds :
       /\ \A regionId \in RegionIds : Len(SeriesOf(rawHistoryData, regionId, typeId)) = 1
       /\ \E ra, rb \in RegionIds :
            /\ rawHistoryData[ra][typeId][1].date = rawHistoryData[rb][typeId][1].date
            /\ rawHistoryData[ra][typeId][1].highest # rawHistoryData[rb][typeId][1].highest
            /\ rawHistoryData[ra][typeId][1].average # rawHistoryData[rb][typeId][1].average

\* C10: merging the aggregated series with itself as a second region keeps the
\* items, the dates and each date's average, highest and lowest, and doubles
\* the volume and the order count.
C10_SelfMerge ==
  aggPc = "merged" =>
    /\ DOMAIN remerged = DOMAIN aggregated
    /\ \A typeId \in DOMAIN aggregated :
         /\ Len(remerged[typeId]) = Len(aggregated[typeId])
         /\ \A k \in 1..Len(aggregated[typeId]) :
              LET before == aggregated[typeId][k]
                  after == remerged[typeId][k]
              IN /\ after.date = before.date
                 /\ after.average = before.average
                 /\ after.highest = before.highest
                 /\ after.lowest = before.lowest
                 /\ after.volume = 2 * before.volume
                 /\ after.order_count = 2 * before.order_count

\* a series with a fractional average and one with a day without volume
\* went through the self-merge
C10_Witness ==
  /\ aggPc = "merged"
  /\ \E typeId \in DOMAIN remerged, k \in 1..MaxEntries :
       /\ k <= Len(remerged[typeId])
       /\ remerged[typeId][k].average.den > 1
       /\ remerged[typeId][k].highest > remerged[typeId][k].lowest

\* ===== main(): the incremental sync run =====

\* if (!historyData[regionId]) historyData[regionId] = {}
EnsureRegion(obj, regionId) ==
  IF regionId \in DOMAIN obj THEN obj ELSE Put(obj, regionId, <<>>)

\* headers['If-None-Match'], headers['If-Modified-Since'] from etagData
ConditionalHeaders(ed, regionId, typeId) ==
  LET cached == Get(ed, regionId, typeId)
  IN [ifNoneMatch |-> IF cached # <<>> THEN cached[1].etag ELSE None,
      ifModifiedSince |-> IF cached # <<>> THEN cached[1].lastModified ELSE None]

\* the series stored under the item in every region of the object
StoreHistoryByItem(hd, regionId, typeId, history) ==
  [k \in DOMAIN hd |-> Put(hd[k], typeId, history)]

\* historyData[regionId][typeId] = history
StoreHistory(hd, regionId, typeId, history) ==
  Put(hd, regionId, Put(hd[regionId], typeId, history))

\* if (etag || lastModified) etagData[regionId][typeId] = { etag, lastModified }
StoreValidators(ed, regionId, typeId, etag, lastModified) ==
  IF etag # None \/ lastModified # None
  THEN Put(ed, regionId,
           Put(ed[regionId], typeId, [etag |-> etag, lastModified |-> lastModified]))
  ELSE ed

\* the 304 answer handled as a 200: its (empty) body is stored
HandleResponseNo304(m, regionId, typeId, response) ==
  IF response.threw
  THEN [m EXCEPT !.errors = @ + 1, !.outcome = "error", !.delayed = TRUE]
  ELSE IF response.status = 304
  THEN [m EXCEPT !.historyData = StoreHistory(@, regionId, typeId, response.body),
                 !.skipped = @ + 1, !.outcome = "unchanged", !.delayed = FALSE]
  ELSE IF IsOk(response.status)
  THEN [m EXCEPT !.historyData = StoreHistory(@, regionId, typeId, response.body),
                 !.fetched = @ + 1,
                 !.etagData = StoreValidators(@, regionId, typeId,
                                              response.etag, response.lastModified),
                 !.outcome = "fetched", !.delayed = TRUE]
  ELSE IF response.status = 404
  THEN [m EXCEPT !.outcome = "absent", !.delayed = FALSE]
  ELSE [m EXCEPT !.errors = @ + 1, !.outcome = "error", !.delayed = TRUE]

\* the body of an error answer stored before the status is looked at
HandleResponseStoresErrors(m, regionId, typeId, response) ==
  IF response.threw
  THEN [m EXCEPT !.errors = @ + 1, !.outcome = "error", !.delayed = TRUE]
  ELSE IF response.status = 304
  THEN [m EXCEPT !.skipped = @ + 1, !.outcome = "unchanged", !.delayed = FALSE]
  ELSE IF IsOk(response.status)
  THEN [m EXCEPT !.historyData = StoreHistory(@, regionId, typeId, response.body),
                 !.fetched = @ + 1,
                 !.etagData = StoreValidators(@, regionId, typeId,
                                              response.etag, response.lastModified),
                 !.outcome = "fetched", !.delayed = TRUE]
  ELSE IF response.status = 404
  THEN [m EXCEPT !.outcome = "absent", !.delayed = FALSE]
  ELSE [m EXCEPT !.historyData = StoreHistory(@, regionId, typeId, response.body),
                 !.errors = @ + 1, !.outcome = "error", !.delayed = TRUE]

\* the 404 answer counted as unchanged and as an error
HandleResponseCountsAbsent(m, regionId, typeId, response) ==
  IF response.threw
  THEN [m EXCEPT !.errors = @ + 1, !.outcome = "error", !.delayed = TRUE]
  ELSE IF response.status = 304
  THEN [m EXCEPT !.skipped = @ + 1, !.outcome = "unchanged", !.delayed = FALSE]
  ELSE IF IsOk(response.status)
  THEN [m EXCEPT !.historyData = StoreHistory(@, regionId, typeId, response.body),
                 !.fetched = @ + 1,
                 !.etagData = StoreValidators(@, regionId, typeId,
                                              response.etag, response.lastModified),
                 !.outcome = "fetched", !.delayed = TRUE]
  ELSE IF response.status = 404
  THEN [m EXCEPT !.skipped = @ + 1, !.errors = @ + 1,
                 !.outcome = "absent", !.delayed = FALSE]
  ELSE [m EXCEPT !.errors = @ + 1, !.outcome = "error", !.delayed = TRUE]

\* the try / catch around fetch: the memory after the answer, the branch
\* taken, and whether the iteration reaches the delay
HandleResponse(m, regionId, typeId, response) ==
  IF response.threw
  THEN [m EXCEPT !.errors = @ + 1, !.outcome = "error", !.delayed = TRUE]
  ELSE IF response.status = 304
  THEN [m EXCEPT !.skipped = @ + 1, !.outcome = "unchanged", !.delayed = FALSE]
  ELSE IF IsOk(response.status)
  THEN [m EXCEPT !.historyData = StoreHistory(@, regionId, typeId, response.body),
                 !.fetched = @ + 1,
                 !.etagData = StoreValidators(@, regionId, typeId,
                                              response.etag, response.lastModified),
                 !.outcome = "fetched", !.delayed = TRUE]
  ELSE IF response.status = 404
  THEN [m EXCEPT !.outcome = "absent", !.delayed = FALSE]
  ELSE [m EXCEPT !.errors = @ + 1, !.outcome = "error", !.delayed = TRUE]

\* main() starts (again, on the store the last execution left): the catalog
\* and the two store files are read
StartRun ==
  /\ \/ pc = "start" /\ run' = run
     \/ pc \in {"done", "failed"} /\ run < MaxRuns /\ run' = run + 1
  /\ catalogFiles = "ok"
  /\ historyData' = (IF histFile.status = "ok" THEN histFile.data ELSE <<>>)
  /\ etagData' = (IF etagFile.status = "ok" THEN etagFile.data ELSE <<>>)
  /\ loadedHistory' = historyData'
  /\ loadedEtags' = etagData'
  /\ fetched' = 0
  /\ skipped' = 0
  /\ errors' = 0
  /\ requestCount' = 0
  /\ r' = 0
  /\ i' = 0
  /\ log' = <<>>
  /\ rawHistoryData' = [regionId \in RegionIds |-> <<>>]
  /\ aggregated' = <<>>
  /\ upstream' \in ValidatorPolicies
  /\ pc' = "loop"
  /\ UNCHANGED <<remerged, aggPc, storeVars, analysisVars>>

\* JSON.parse(await readFile(itemsFilePath)) throws: the catch block of main()
StartRunFails ==
  /\ \/ pc = "start" /\ run' = run
     \/ pc \in {"done", "failed"} /\ run < MaxRuns /\ run' = run + 1
  /\ catalogFiles # "ok"
  /\ pc' = "failed"
  /\ UNCHANGED <<historyData, etagData, r, i, requestCount, fetched, skipped,
                 errors, loadedHistory, loadedEtags, log,
                 aggVars, storeVars, envVars, analysisVars>>

\* one iteration of the inner loop: the request for the pair (r, i) and the
\* handling of its answer
Fetch ==
  /\ pc = "loop"
  /\ r < totalRegions
  /\ requestCount < NUMBER_OF_ITEMS_TO_PROCESS
  /\ LET regionId == regionsData[r + 1]
         typeId == itemsData[i + 1]
         hd == IF i = 0 THEN EnsureRegion(historyData, regionId) ELSE historyData
         ed == IF i = 0 THEN EnsureRegion(etagData, regionId) ELSE etagData
         headers == ConditionalHeaders(ed, regionId, typeId)
         conditional == headers.ifNoneMatch # None \/ headers.ifModifiedSince # None
     IN \E response \in Responses(run, conditional, upstream) :
          LET m == HandleResponse(
                     [historyData |-> hd, etagData |-> ed, fetched |-> fetched,
                      skipped |-> skipped, errors |-> errors,
                      outcome |-> "", delayed |-> FALSE],
                     regionId, typeId, response)
          IN /\ historyData' = m.historyData
             /\ etagData' = m.etagData
             /\ fetched' = m.fetched
             /\ skipped' = m.skipped
             /\ errors' = m.errors
             /\ log' = Append(log, [regionId |-> regionId, typeId |-> typeId,
                                    outcome |-> m.outcome,
                                    threw |-> response.threw, status |-> response.status,
                                    etag |-> response.etag,
                                    lastModified |-> response.lastModified,
                                    ifNoneMatch |-> headers.ifNoneMatch,
                                    ifModifiedSince |-> headers.ifModifiedSince,
                                    delayed |-> m.delayed])
  /\ requestCount' = requestCount + 1
  /\ IF i + 1 < totalItems
     THEN r' = r /\ i' = i + 1
     ELSE r' = r + 1 /\ i' = 0
  /\ UNCHANGED <<pc, run, loadedHistory, loadedEtags, aggVars, storeVars, envVars, analysisVars>>

\* the loops end (all regions done, or the request budget used up) and
\* await fs.promises.writeFile(HISTORY_FILE, JSON.stringify(historyData))
WriteHistory ==
  /\ pc = "loop"
  /\ (r >= totalRegions \/ requestCount >= NUMBER_OF_ITEMS_TO_PROCESS)
  /\ histFile' = [status |-> "ok", data |-> historyData]
  /\ pc' = "writeEtags"
  /\ UNCHANGED <<historyData, etagData, r, i, requestCount, fetched, skipped,
                 errors, run, loadedHistory, loadedEtags, log,
                 aggVars, etagFile, catalogFiles, envVars, analysisVars>>

\* await fs.promises.writeFile(ETAGS_FILE, JSON.stringify(etagData))
WriteEtags ==
  /\ pc = "writeEtags"
  /\ etagFile' = [status |-> "ok", data |-> etagData]
  /\ pc' = "analysis"
  /\ UNCHANGED <<historyData, etagData, r, i, requestCount, fetched, skipped,
                 errors, run, loadedHistory, loadedEtags, log,
                 aggVars, histFile, catalogFiles, envVars, analysisVars>>

\* runEVEAutomated: the history file is read back and aggregated
RunAnalysis ==
  /\ pc = "analysis"
  /\ histFile.status = "ok"
  /\ rawHistoryData' = histFile.data
  /\ aggregated' = aggregateRegionData(IntegerKeys(DOMAIN histFile.data), histFile.data)
  /\ pc' = "done"
  /\ UNCHANGED <<historyData, etagData, r, i, requestCount, fetched, skipped,
                 errors, run, loadedHistory, loadedEtags, log,
                 remerged, aggPc, storeVars, envVars, analysisVars>>

Init ==
  /\ InitStore
  /\ InitMain
  /\ InitAgg
  /\ IdleAnalysis

Next ==
  \/ StartRun
  \/ StartRunFails
  \/ Fetch
  \/ WriteHistory
  \/ WriteEtags
  \/ RunAnalysis

Spec == Init /\ [][Next]_vars

\* ===== properties of the sync run =====

\* the (region, item) pairs of the catalog
Pairs == {<<regionsData[a], itemsData[b]>> : a \in 1..totalRegions, b \in 1..totalItems}

\* the number of requests of a complete run
RequestsPerRun ==
  IF totalRegions * totalItems < NUMBER_OF_ITEMS_TO_PROCESS
  THEN totalRegions * totalItems
  ELSE NUMBER_OF_ITEMS_TO_PROCESS

\* the request of the current run for the pair p ended in the branch `outcome`
Answered(p, outcome) ==
  \E k \in 1..Len(log) :
    log[k].regionId = p[1] /\ log[k].typeId = p[2] /\ log[k].outcome = outcome

\* the pair p has in memory, and in the files once they are written, the
\* series and the token that were loaded at the start of the run
PairAsLoaded(p) ==
  /\ Get(historyData, p[1], p[2]) = Get(loadedHistory, p[1], p[2])
  /\ Get(etagData, p[1], p[2]) = Get(loadedEtags, p[1], p[2])
  /\ pc \in {"writeEtags", "analysis", "done"} =>
       /\ histFile.status = "ok"
       /\ Get(histFile.data, p[1], p[2]) = Get(loadedHistory, p[1], p[2])
  /\ pc \in {"analysis", "done"} =>
       /\ etagFile.status = "ok"
       /\ Get(etagFile.data, p[1], p[2]) = Get(loadedEtags, p[1], p[2])

\* the run whose response carried the token
TokenRun(token) == IF token.etag # None THEN token.etag ELSE token.lastModified

\* C1: a pair answered with 304 keeps, to the end of the run and in the
\* written files, the series and the token it had when the run started.
C1_UnchangedKeepsPair ==
  \A p \in Pairs : Answered(p, "unchanged") => PairAsLoaded(p)

\* a run is over in which a stored pair was answered with 304 while another
\* pair was replaced
C1_Witness ==
  /\ pc = "done"
  /\ \E p, q \in Pairs :
       /\ Answered(p, "unchanged")
       /\ Get(histFile.data, p[1], p[2]) # <<>>
       /\ Get(etagFile.data, p[1], p[2]) # <<>>
       /\ Answered(q, "fetched")

\* C2: a pair answered with 404 has no series in the written snapshot
\* and none in the history the analysis aggregates.
C2_AbsentHasNoEntry ==
  \A p \in Pairs :
    Answered(p, "absent") =>
      /\ pc \in {"writeEtags", "analysis", "done"} => Get(histFile.data, p[1], p[2]) = <<>>
      /\ pc = "done" => Get(rawHistoryData, p[1], p[2]) = <<>>

\* C3: after a 200 answer the pair holds the returned series, and its token
\* is the one of that answer, not the token of an earlier one.
C3_ReplacedUpdatesToken ==
  \A p \in Pairs :
    Answered(p, "fetched") =>
      /\ Get(historyData, p[1], p[2]) = <<ResponseBody(run)>>
      /\ \A token \in {Get(etagData, p[1], p[2])} :
           token # <<>> => TokenRun(token[1]) = run

\* C4: in the files, every pair with a token has the series of the response
\* that carried the token.
C4_TokenMatchesSeries ==
  \A p \in Pairs :
    \A token \in {Get(etagFile.data, p[1], p[2])} :
      token # <<>> =>
        Get(histFile.data, p[1], p[2]) = <<ResponseBody(TokenRun(token[1]))>>

\* the number of requests of the run that ended with the given outcome
CountOutcome(outcome) == Cardinality({k \in 1..Len(log) : log[k].outcome = outcome})

C6_RateLimitHalts ==
  \A k \in 1..Len(log) : log[k].status = 429 => k = Len(log)

\* C18: a run that starts while the history file or a catalog file is missing
\* or unparseable ends in the catch block at once: it requests nothing and
\* writes no snapshot.
C18_StructuralErrorIsFatal ==
  [][(/\ pc \in {"start", "done", "failed"}
      /\ (histFile.status # "ok" \/ catalogFiles # "ok"))
       => (pc' = "failed" /\ histFile' = histFile /\ etagFile' = etagFile)]_vars

\* the token stored for the pair p: <<token>>, <<>> when there is none
TokenOf(ed, p) == Get(ed, p[1], p[2])

\* C21: the request for a pair changes the stored series and token of no
\* other pair, also not of the same item in another region, and its
\* conditional headers are those of the token stored for that pair.
C21_PairKeyedCache ==
  [][(pc = "loop" /\ Len(log') = Len(log) + 1) =>
       LET entry == log'[Len(log')]
           p == <<entry.regionId, entry.typeId>>
       IN /\ \A q \in Pairs \ {p} :
               /\ Get(historyData', q[1], q[2]) = Get(historyData, q[1], q[2])
               /\ Get(etagData', q[1], q[2]) = Get(etagData, q[1], q[2])
          /\ entry.ifNoneMatch =
               (IF TokenOf(etagData, p) = <<>> THEN None ELSE TokenOf(etagData, p)[1].etag)
          /\ entry.ifModifiedSince =
               (IF TokenOf(etagData, p) = <<>> THEN None
                ELSE TokenOf(etagData, p)[1].lastModified)]_vars

\* in the second run the first pair was replaced, with a conditional request
\* carrying its token of the first run, while the same item in the other
\* region still holds the series and the token of the first run
C21_Witness ==
  /\ run = 2
  /\ Len(log) = 1
  /\ log[1].outcome = "fetched"
  /\ log[1].ifNoneMatch = 1
  /\ Get(historyData, regionsData[1], itemsData[1]) = <<ResponseBody(2)>>
  /\ Get(historyData, regionsData[2], itemsData[1]) = <<ResponseBody(1)>>
  /\ Get(etagData, regionsData[2], itemsData[1]) # <<>>
  /\ Get(etagData, regionsData[2], itemsData[1])[1].etag = 1

\* C24: every request of a run that is followed by another request was
\* followed by the delay first, whatever its outcome.
C24_DelayBetweenRequests ==
  \A k \in 1..Len(log) : k < Len(log) => log[k].delayed

\* the k-th pair in region-major order
PairAt(k) ==
  <<regionsData[((k - 1) \div totalItems) + 1], itemsData[((k - 1) % totalItems) + 1]>>

\* C28: the requests of a run are the first pairs in region-major order,
\* whatever the answers; requestCount stays within the budget, the three
\* counters within requestCount, a complete run has requested the whole
\* prefix, and a pair beyond the prefix is never stored.
C28_RequestedPrefix ==
  /\ \A k \in 1..Len(log) : <<log[k].regionId, log[k].typeId>> = PairAt(k)
  /\ requestCount = Len(log)
  /\ requestCount <= NUMBER_OF_ITEMS_TO_PROCESS
  /\ fetched + skipped + errors <= requestCount
  /\ pc \in {"writeEtags", "analysis", "done"} => Len(log) = RequestsPerRun
  /\ \A k \in (RequestsPerRun + 1)..(totalRegions * totalItems) :
       /\ Get(historyData, PairAt(k)[1], PairAt(k)[2]) = <<>>
       /\ Get(histFile.data, PairAt(k)[1], PairAt(k)[2]) = <<>>

\* the second run is over: its requests were answered with 200, 404 and
\* 500, so that the counters add up to less than requestCount
C28_Witness ==
  /\ run = 2
  /\ pc = "done"
  /\ requestCount = NUMBER_OF_ITEMS_TO_PROCESS
  /\ log[1].outcome = "fetched"
  /\ log[2].outcome = "absent"
  /\ log[3].status = 500
  /\ fetched + skipped + errors = 2

\* ===== the sync runs on any store =====

\* the series and the token an earlier execution stored for the first pair
StoredHistory ==
  Put(<<>>, regionsData[1], Put(<<>>, itemsData[1], ResponseBody(MaxRuns + 1)))
StoredEtags ==
  Put(<<>>, regionsData[1],
      Put(<<>>, itemsData[1], [etag |-> MaxRuns + 1, lastModified |-> MaxRuns + 1]))

\* each of the two store files present, missing or unparseable
InitAnyStore ==
  /\ histFile \in {[status |-> "missing", data |-> <<>>],
                    [status |-> "corrupt", data |-> <<>>],
                    [status |-> "ok", data |-> StoredHistory]}
  /\ etagFile \in {[status |-> "missing", data |-> <<>>],
                    [status |-> "corrupt", data |-> <<>>],
                    [status |-> "ok", data |-> StoredEtags]}
  /\ catalogFiles \in {"ok", "missing"}
  /\ upstream = [etag |-> TRUE, lastModified |-> TRUE]

InitAnyStoreSpec ==
  /\ InitAnyStore
  /\ InitMain
  /\ InitAgg
  /\ IdleAnalysis

SpecAnyStore == InitAnyStoreSpec /\ [][Next]_vars

\* C26: once a run has written both files, every pair with a stored token
\* has a stored series.
C26_TokenImpliesSeries ==
  pc \in {"analysis", "done"} =>
    \A p \in Pairs :
      Get(etagFile.data, p[1], p[2]) # <<>> => Get(histFile.data, p[1], p[2]) # <<>>

\* ===== calculateInvestmentScore on its own =====

\* neither main() nor the aggregation runs
IdleSync ==
  /\ InitAgg
  /\ InitMain
  /\ histFile = [status |-> "missing", data |-> <<>>]
  /\ etagFile = [status |-> "missing", data |-> <<>>]
  /\ catalogFiles = "ok"
  /\ upstream = [etag |-> TRUE, lastModified |-> TRUE]

\* the percentages passed to calculateInvestmentScore: the breakpoints 15, 20,
\* 30 and 40 with their neighbours, 0, an extreme value, negative values
PriceChanges == {Num(0 - 50), Num(0), Num(20), Num(30), Num(31), Num(40), Num(1000)}
Volatilities == {Num(0), Num(10), Rat(14999, 1000), Num(15), Num(16), Num(20), Num(1000)}
Momentums == {Num(0 - 100), Num(0 - 5), Num(0), Num(5), Num(10), Num(11), Num(1000)}

InitScore ==
  /\ scoreArgs \in [priceChange : PriceChanges, volatility : Volatilities,
                     momentum : Momentums]
  /\ score = <<>>

\* const investmentScore = calculateInvestmentScore(priceChange, volatility, momentum)
CalculateScore ==
  /\ score = <<>>
  /\ score' = <<calculateInvestmentScore(scoreArgs.priceChange, scoreArgs.volatility,
                                         scoreArgs.momentum)>>
  /\ UNCHANGED <<scoreArgs, itemVars, rankVars, convertVars, osrsVars,
                 sorterVars, populateVars, historyVars, aggVars, storeVars, envVars, mainVars>>

NextScore == CalculateScore

InitScoreSpec ==
  /\ IdleSync
  /\ InitScore
  /\ IdleItem
  /\ IdleRank
  /\ IdleConvert
  /\ IdleOsrs
  /\ IdleSorter
  /\ IdlePopulate
  /\ IdleHistory

SpecScore == InitScoreSpec /\ [][NextScore]_vars

\* C11: for a finite, non-negative triple the returned score lies in [0, 100].
C11_ScoreInRange ==
  (/\ score # <<>>
   /\ \A x \in {scoreArgs.priceChange, scoreArgs.volatility, scoreArgs.momentum} :
        IsFinite(x) /\ x.num >= 0)
    => /\ IsFinite(score[1])
       /\ score[1].num >= 0
       /\ score[1].num <= 100 * score[1].den

\* the score of the triple (1000, 1000, 1000), whose components add up to 160
C11_Witness ==
  /\ scoreArgs = [priceChange |-> Num(1000), volatility |-> Num(1000),
                  momentum |-> Num(1000)]
  /\ score = <<Num(100)>>

\* the reference formula on finite rationals, component by component
RefVolatility(v) == IF v.num >= 20 * v.den THEN Num(30) ELSE Rat(v.num * 30, v.den * 20)
RefMomentum(m) == IF 3 * m.num <= 30 * m.den THEN Rat(3 * m.num, m.den) ELSE Num(30)
RefPriceChange(p) ==
  IF p.num >= 40 * p.den THEN Num(30)
  ELSE IF p.num > 0 THEN Rat(p.num * 30, p.den * 40)
  ELSE Num(0)
RefBonus(p, v, m) ==
  IF m.num > 10 * m.den /\ p.num > 30 * p.den /\ v.num > 15 * v.den
  THEN Num(10) ELSE Num(0)
RefClamp(x) ==
  IF x.num < 0 THEN Num(0) ELSE IF x.num > 100 * x.den THEN Num(100) ELSE x
RefScore(p, v, m) ==
  RefClamp(RatAdd(RatAdd(RatAdd(RatAdd(Num(50), RefVolatility(v)), RefMomentum(m)),
                         RefPriceChange(p)), RefBonus(p, v, m)))

\* C12: the returned score equals the reference formula; volatility 20,
\* momentum 0 and priceChange 40 give 100; a negative momentum lowers the sum
\* by three times its amount, down to the final clamp at 0.
C12_ScoreMatchesReference ==
  score # <<>> =>
    /\ score[1] = RefScore(scoreArgs.priceChange, scoreArgs.volatility,
                           scoreArgs.momentum)
    /\ (scoreArgs = [priceChange |-> Num(40), volatility |-> Num(20),
                     momentum |-> Num(0)]) => score[1] = Num(100)
    /\ (scoreArgs = [priceChange |-> Num(0), volatility |-> Num(0),
                     momentum |-> Num(0 - 100)]) => score[1] = Num(0)

\* a momentum of -5 took 15 points off: 50 + 15 - 15 + 15
C12_Witness ==
  /\ scoreArgs = [priceChange |-> Num(20), volatility |-> Num(10),
                  momentum |-> Num(0 - 5)]
  /\ score = <<Num(65)>>

\* ===== analyzeItem on one history =====

\* the date string of the k-th day, two digits
DateOf(k) == <<k \div 10, k % 10>>

\* the history of an item whose daily averages are `averages`, oldest first
HistoryOf(averages) ==
  [k \in 1..Len(averages) |->
     Entry(DateOf(k), Num(averages[k]), averages[k] + 1, averages[k], 100, 3)]

\* n days: the average a, and b on the last k of them
Step(n, k, a, b) == [d \in 1..n |-> IF d <= n - k THEN a ELSE b]

\* averages of the two-day histories: 0, pairs around the volatility
\* breakpoints 15 (85 and 115) and 20, rises above 30 and 40 percent
PairPrices == {0, 10, 12, 14, 20, 40, 85, 115}

\* the daily averages of the analysed items: no day, one day, two days, a
\* volatility of 14.996, 7 and 30 days, 59, 60 and 62 days, zero averages at
\* the start, in the first window, everywhere
AverageSeries ==
  {<<>>, <<0>>, <<10>>, <<28749, 21251>>}
  \cup {<<a, b>> : a, b \in PairPrices}
  \cup {Step(7, 1, 10, 12), Step(7, 6, 0, 10), Step(30, 1, 10, 12),
        Step(30, 29, 0, 10), Step(59, 30, 1, 2), Step(60, 30, 1, 2),
        Step(60, 30, 0, 1), Step(60, 30, 0, 0), Step(60, 30, 2, 3),
        <<2, 1>> \o Step(60, 30, 1, 2),
        <<10, 20, 20, 20, 20, 20, 20, 40>>, <<10>> \o Step(30, 1, 20, 40)}

InitItem ==
  /\ itemHistory \in {HistoryOf(averages) : averages \in AverageSeries}
  /\ metrics = NoMetrics
  /\ analysis = <<>>
  /\ analysisPc = "input"

\* const analysis = analyzeItem(itemHistory, itemInfo)
AnalyzeItem ==
  /\ analysisPc = "input"
  /\ metrics' = (IF itemHistory = <<>> THEN NoMetrics ELSE Metrics(SortByDate(itemHistory)))
  /\ analysis' = analyzeItem(itemHistory, [id |-> 1])
  /\ analysisPc' = "analysed"
  /\ UNCHANGED <<itemHistory, scoreVars, rankVars, convertVars, osrsVars,
                 sorterVars, populateVars, historyVars, aggVars, storeVars, envVars, mainVars>>

NextItem == AnalyzeItem

InitItemSpec ==
  /\ IdleSync
  /\ IdleScore
  /\ InitItem
  /\ IdleRank
  /\ IdleConvert
  /\ IdleOsrs
  /\ IdleSorter
  /\ IdlePopulate
  /\ IdleHistory

SpecItem == InitItemSpec /\ [][NextItem]_vars

\* the daily averages of the history, as integers
AveragesOf(h) == [k \in 1..Len(h) |-> h[k].average.num]

\* C13: an analysed item is 'high' exactly when its unrounded volatility is
\* at least 15, and 'low' otherwise; 14.996 is low, 15 is high, whatever the
\* displayed volatility and the score say.
C13_RiskLevelThreshold ==
  (analysisPc = "analysed" /\ analysis # <<>>) =>
    LET v == metrics.volatility
        atLeast15 == \/ v = PlusInfinity
                     \/ IsFinite(v) /\ v.num >= 15 * v.den
    IN /\ analysis[1].riskLevel \in {"high", "low"}
       /\ (analysis[1].riskLevel = "high") <=> atLeast15
       /\ v = Rat(14996, 1000) => analysis[1].riskLevel = "low"
       /\ v = Num(15) => analysis[1].riskLevel = "high"

\* the item with the averages 28749 and 21251: volatility 14.996, displayed
\* as 15.00, risk level low
C13_Witness ==
  /\ analysisPc = "analysed"
  /\ AveragesOf(itemHistory) = <<28749, 21251>>
  /\ metrics.volatility = Rat(14996, 1000)
  /\ analysis[1].volatility = ToFixed(Num(15), 2)
  /\ analysis[1].riskLevel = "low"

\* C14: the price change and the volatility of a series of fewer than 2
\* points, and the momentum of a series of fewer than 60 points, are exactly
\* 0; from 60 points on the momentum compares the average of the last 30
\* points with the average of the 30 points before them.
C14_MinimumLengths ==
  /\ calculatePriceChange(<<>>) = Zero
  /\ calculateVolatility(<<>>) = Zero
  /\ calculateMomentum(<<>>) = Zero
  /\ (analysisPc = "analysed" /\ itemHistory # <<>>) =>
       LET n == Len(itemHistory)
           a == AveragesOf(itemHistory)
           recent == SumOf([k \in (n - 29)..n |-> a[k]])
           previous == SumOf([k \in (n - 59)..(n - 30) |-> a[k]])
       IN /\ n < 2 => metrics.priceChange = Zero /\ metrics.volatility = Zero
          /\ n < 60 => metrics.momentum = Zero
          /\ (n >= 60 /\ previous > 0) =>
               metrics.momentum = Rat((recent - previous) * 100, previous)

\* 59 days, the last 30 of them at twice the average of the others: momentum 0
C14_Witness ==
  /\ analysisPc = "analysed"
  /\ AveragesOf(itemHistory) = Step(59, 30, 1, 2)
  /\ metrics.momentum = Zero
  /\ metrics.priceChange = Num(100)

\* C15: a metric whose divisor is exactly 0 is exactly 0: the price change
\* for a first price 0, the volatility for a mean 0, the momentum for a
\* prior-30 average 0, the 7-day and 30-day changes for a reference price 0.
C15_ZeroDivisorGivesZero ==
  (analysisPc = "analysed" /\ itemHistory # <<>>) =>
    LET n == Len(itemHistory)
        a == AveragesOf(itemHistory)
    IN /\ (n >= 2 /\ a[1] = 0) => metrics.priceChange = Zero
       /\ (n >= 2 /\ SumOf(a) = 0) => metrics.volatility = Zero
       /\ (n >= 60 /\ SumOf([k \in (n - 59)..(n - 30) |-> a[k]]) = 0) =>
            metrics.momentum = Zero
       /\ (n >= 7 /\ a[n - 6] = 0) => metrics.priceChange7d = Zero
       /\ (n >= 30 /\ a[n - 29] = 0) => metrics.priceChange30d = Zero

\* the change in percent from the price `horizon` positions before the last
\* one, 0 when the series has no such point
ChangeOver(averages, horizon) ==
  IF Len(averages) > horizon
  THEN PercentChange(averages[Len(averages)], averages[Len(averages) - horizon])
  ELSE Zero

\* C22: priceChange7d and priceChange30d are the changes from the price 7 and
\* 30 positions before the last one of the sorted series, and 0 when the
\* series is too short to hold that point.
C22_ShortTermChanges ==
  (analysisPc = "analysed" /\ analysis # <<>>) =>
    LET averages == [k \in 1..Len(itemHistory) |-> itemHistory[k].average]
    IN /\ metrics.priceChange7d = ChangeOver(averages, 7)
       /\ metrics.priceChange30d = ChangeOver(averages, 30)

\* ===== the shortlists of the two analysers =====

\* number of items analysed in one run
MaxItems == 6

\* the items of a run: daily averages and membership. Scores 50.0 and 78.6
\* (low risk), an item whose averages are all 0, scores 100.0 and 80.0 (high
\* risk), the latter a free-to-play item
RankedItems ==
  {[averages |-> <<10, 10>>, members |-> TRUE],
   [averages |-> <<10, 12>>, members |-> TRUE],
   [averages |-> <<0, 0>>, members |-> TRUE],
   [averages |-> <<10, 20>>, members |-> TRUE],
   [averages |-> <<20, 10>>, members |-> FALSE]}

\* the daily prices updateLocalHistory returns for the averages
PriceDataOf(averages) ==
  <<[daily |-> [k \in 1..Len(averages) |->
                  [key |-> DateOf(k), price |-> <<Num(averages[k])>>]]]>>

\* one iteration of the analysis loops: the item is analysed by both
\* analysers and the analysis pushed
PushAnalysis(item) ==
  /\ rankPc = "collect"
  /\ Len(results) < MaxItems
  /\ LET id == Len(results) + 1
     IN /\ results' = results \o analyzeItem(HistoryOf(item.averages), [id |-> id])
        /\ osrsResults' = osrsResults \o
             analyzeItemOSRS(PriceDataOf(item.averages),
                             [id |-> id, members |-> item.members, volume |-> 100])
  /\ UNCHANGED <<shortlists, osrsShortlists, rankPc, scoreVars, itemVars,
                 convertVars, osrsVars, sorterVars,
                 populateVars, historyVars, aggVars, storeVars, envVars, mainVars>>

\* the results are categorized: filter, sort and slice per segment
Rank ==
  /\ rankPc = "collect"
  /\ shortlists' = ShortlistsEVE(results)
  /\ osrsShortlists' = ShortlistsOSRS(osrsResults)
  /\ rankPc' = "ranked"
  /\ UNCHANGED <<results, osrsResults, scoreVars, itemVars,
                 convertVars, osrsVars, sorterVars,
                 populateVars, historyVars, aggVars, storeVars, envVars, mainVars>>

NextRank ==
  \/ \E item \in RankedItems : PushAnalysis(item)
  \/ Rank

InitRankSpec ==
  /\ IdleSync
  /\ IdleScore
  /\ IdleItem
  /\ IdleRank
  /\ IdleConvert
  /\ IdleOsrs
  /\ IdleSorter
  /\ IdlePopulate
  /\ IdleHistory

SpecRank == InitRankSpec /\ [][NextRank]_vars

\* the shortlists with the results, the segment and the size they are built from
RankedLists ==
  {[list |-> shortlists.highRisk, from |-> SelectSeq(results, IsHighRisk), size |-> 5],
   [list |-> shortlists.lowRisk, from |-> SelectSeq(results, IsLowRisk), size |-> 5],
   [list |-> osrsShortlists.highRiskMembers,
    from |-> SelectSeq(osrsResults, IsHighRiskMembers), size |-> 3],
   [list |-> osrsShortlists.lowRiskMembers,
    from |-> SelectSeq(osrsResults, IsLowRiskMembers), size |-> 3],
   [list |-> osrsShortlists.highRiskF2P,
    from |-> SelectSeq(osrsResults, IsHighRiskF2P), size |-> 3],
   [list |-> osrsShortlists.lowRiskF2P,
    from |-> SelectSeq(osrsResults, IsLowRiskF2P), size |-> 3]}

\* the score of an analysis as the comparator reads it
ScoreOf(a) == ParseFloat(a.investmentScore)

C17_TopOfSegment ==
  rankPc = "ranked" =>
    \A l \in RankedLists :
      LET listed == {l.list[k].id : k \in 1..Len(l.list)}
      IN /\ Len(l.list) = (IF Len(l.from) < l.size THEN Len(l.from) ELSE l.size)
         /\ \A k \in 1..Len(l.list) : \E j \in 1..Len(l.from) : l.from[j] = l.list[k]
         /\ \A j, k \in 1..Len(l.list) :
              j < k => ~NumLt(ScoreOf(l.list[j]), ScoreOf(l.list[k]))
         /\ \A j \in 1..Len(l.from) :
              l.from[j].id \notin listed =>
                \A k \in 1..Len(l.list) : ~NumGt(ScoreOf(l.from[j]), ScoreOf(l.list[k]))

\* ===== convertToArray on one daily price object =====

\* number of entries of the daily price object
MaxPoints == 3

\* the keys of the object: "01", "02", "03", a key that is no number, and
\* "01x", which parseInt reads as 1
DailyKeys == {<<0, 1>>, <<0, 2>>, <<0, 3>>, <<NonDigit>>, <<0, 1, NonDigit>>}

\* the prices of the object: two numbers and null
DailyPrices == {<<Num(10)>>, <<Num(12)>>, <<>>}

\* the objects of up to MaxPoints entries with distinct keys, in key order
DailyObjects ==
  UNION {{d \in [1..n -> [key : DailyKeys, price : DailyPrices]] :
            \A j, k \in 1..n : j # k => d[j].key # d[k].key} : n \in 0..MaxPoints}

InitConvert ==
  /\ priceData \in DailyObjects
  /\ prices = <<>>
  /\ osrsAnalysis = <<>>
  /\ convertPc = "input"

\* const analysis = analyzeItem(priceData, item), with its call of convertToArray
ConvertAndAnalyze ==
  /\ convertPc = "input"
  /\ prices' = convertToArray(priceData)
  /\ osrsAnalysis' = analyzeItemOSRS(<<[daily |-> priceData]>>,
                                     [id |-> 1, members |-> TRUE, volume |-> 100])
  /\ convertPc' = "converted"
  /\ UNCHANGED <<priceData, scoreVars, itemVars, rankVars, osrsVars,
                 sorterVars, populateVars, historyVars, aggVars, storeVars, envVars, mainVars>>

NextConvert == ConvertAndAnalyze

InitConvertSpec ==
  /\ IdleSync
  /\ IdleScore
  /\ IdleItem
  /\ IdleRank
  /\ InitConvert
  /\ IdleOsrs
  /\ IdleSorter
  /\ IdlePopulate
  /\ IdleHistory

SpecConvert == InitConvertSpec /\ [][NextConvert]_vars

\* an entry whose key is a string of digits and whose price is a number
WellFormed(e) ==
  /\ e.key # <<>>
  /\ LeadingDigits(e.key) = e.key
  /\ e.price # <<>>

\* C20: the converted series has strictly increasing, unique dates, one point
\* for every well-formed entry and none for a malformed one; the empty
\* object gives the empty series and no analysis.
C20_MalformedEntriesDropped ==
  convertPc = "converted" =>
    LET wellFormed == {k \in 1..Len(priceData) : WellFormed(priceData[k])}
    IN /\ Len(prices) = Cardinality(wellFormed)
       /\ \A k \in wellFormed :
            \E j \in 1..Len(prices) :
              /\ prices[j].timestamp = Num(DigitsValue(priceData[k].key))
              /\ prices[j].price = priceData[k].price
       /\ \A j, k \in 1..Len(prices) :
            j < k => NumLt(prices[j].timestamp, prices[k].timestamp)
       /\ priceData = <<>> => (prices = <<>> /\ osrsAnalysis = <<>>)

\* ===== main() of the single-region analyser =====

\* item ids of the database
OsrsIds == {1, 2}

\* the day of the run and the day before it; the keys of the history are
\* millisecond timestamps, which are no array indices, so that the object
\* keeps them in insertion order
Today == 2
Yesterday == 1

\* the instants told apart within one UTC day
PartsPerDay == 2

\* one item of the database: price undefined, a members item, a free item
OsrsItemPool ==
  {[price |-> <<>>, members |-> TRUE, volume |-> 100],
   [price |-> <<Num(10)>>, members |-> TRUE, volume |-> 100],
   [price |-> <<Num(12)>>, members |-> FALSE, volume |-> 100]}

\* the database: every id absent (<<>>) or one item of the pool
OsrsDatabases == [OsrsIds -> {<<>>} \cup {<<it>> : it \in OsrsItemPool}]

\* the daily prices the history file holds for one item
OsrsDailies ==
  {<<>>,
   <<[key |-> DateOf(Yesterday), price |-> <<Num(10)>>]>>,
   <<[key |-> DateOf(Today), price |-> <<Num(10)>>]>>}

\* the volumes stored with the points of a daily object
VolumesOf(daily) ==
  [k \in 1..Len(daily) |-> [key |-> daily[k].key, volume |-> 100]]

\* the entry of one item in the history file
OsrsEntries ==
  {[name |-> "name", daily |-> d, volume |-> VolumesOf(d)] : d \in OsrsDailies}

\* data/osrs-history.json: missing, unparseable, or the entries by item id
OsrsHistFiles ==
  {[status |-> "missing", data |-> <<>>], [status |-> "corrupt", data |-> <<>>]}
    \cup {[status |-> "ok", data |-> d] : d \in [OsrsIds -> OsrsEntries]}

InitOsrs ==
  /\ osrsDb \in OsrsDatabases
  /\ osrsFetch \in {"ok", "fail"}
  /\ osrsHistFile \in OsrsHistFiles
  /\ osrsReportFails \in BOOLEAN
  /\ osrsRecord = <<>>
  /\ osrsExit = <<>>
  /\ osrsPc = "start"

\* the filter of runOSRSAutomated: items with a price (name and volume are
\* present on every item of the pool)
AllItems == {id \in OsrsIds : osrsDb[id] # <<>> /\ osrsDb[id][1].price # <<>>}

\* [...allItems].sort(() => Math.random() - 0.5): some order of the items
ShuffledItems ==
  {order \in [1..Cardinality(AllItems) -> AllItems] :
     \A j, k \in DOMAIN order : j # k => order[j] # order[k]}

\* loadHistoricalData on a readable file: the file's object, {} if missing
loadHistoricalData(file) ==
  IF file.status = "missing" THEN <<>> ELSE file.data

\* today.setUTCHours(0, 0, 0, 0); today.getTime(): the key of the UTC day
\* of the instant `now`, counted in parts of a day
TodayTimestamp(now) == DateOf(now \div PartsPerDay)

SetTodayAppending(object, todayTimestamp, point) ==
  Append(object, point)

\* object[todayTimestamp] = value on daily and on volume: the value of an
\* existing key is replaced in place, a new key comes last
SetToday(object, todayTimestamp, point) ==
  IF \E k \in 1..Len(object) : object[k].key = todayTimestamp
  THEN [k \in 1..Len(object) |->
          IF object[k].key = todayTimestamp THEN point ELSE object[k]]
  ELSE Append(object, point)

\* historicalData[itemId], initialised if it does not exist
ItemOf(historicalData, itemId, itemName) ==
  IF itemId \in DOMAIN historicalData THEN historicalData[itemId]
  ELSE [name |-> itemName, daily |-> <<>>, volume |-> <<>>]

\* updateLocalHistory(itemId, itemName, currentPrice, volume) on the day with
\* the key todayTimestamp: the file after saveHistoricalData
updateLocalHistory(file, todayTimestamp, itemId, itemName, currentPrice, volume) ==
  [status |-> "ok",
   data |->
     Put(loadHistoricalData(file), itemId,
         [name |-> itemName,
          daily |-> SetToday(ItemOf(loadHistoricalData(file), itemId, itemName).daily,
                             todayTimestamp,
                             [key |-> todayTimestamp, price |-> currentPrice]),
          volume |-> SetToday(ItemOf(loadHistoricalData(file), itemId, itemName).volume,
                              todayTimestamp,
                              [key |-> todayTimestamp, volume |-> volume])])]

\* the history file after the first k iterations of the loop of
\* runOSRSAutomated
RECURSIVE FileAfter(_, _, _)
FileAfter(order, k, file) ==
  IF k = 0 THEN file
  ELSE updateLocalHistory(FileAfter(order, k - 1, file), DateOf(Today), order[k],
                          "name", osrsDb[order[k]][1].price,
                          osrsDb[order[k]][1].volume)

\* if (analysis)
IsAnalysis(a) == a # <<>>

\* results.push(analysis) for the analyses that are not null
Pushed(analyses) ==
  [k \in 1..Len(SelectSeq(analyses, IsAnalysis)) |->
     SelectSeq(analyses, IsAnalysis)[k][1]]

\* the loop of runOSRSAutomated: every item of the order is analysed on the
\* history updateLocalHistory returns for it
AnalyzeAll(order, file) ==
  Pushed([k \in 1..Len(order) |->
            analyzeItemOSRS(<<[daily |-> FileAfter(order, k, file).data[order[k]].daily]>>,
                            [id |-> order[k],
                             members |-> osrsDb[order[k]][1].members,
                             volume |-> osrsDb[order[k]][1].volume])])

\* the return value of runOSRSAutomated with the metadata main adds
ResultsRecord(analysed, checked) ==
  ShortlistsOSRS(analysed) @@
    [totalAnalyzed |-> Len(analysed),
     totalChecked |-> checked,
     metadata |-> [itemsAnalyzed |-> Len(analysed)]]

\* errorResult of the catch block of main
ErrorRecord == [error |-> "message", metadata |-> [failed |-> TRUE]]

\* fetchItemDatabase fails: its own catch block ends the process with code 1
FetchItemDatabaseFails ==
  /\ osrsPc = "start"
  /\ osrsFetch = "fail"
  /\ osrsExit' = <<1>>
  /\ osrsPc' = "exited"
  /\ UNCHANGED <<osrsDb, osrsFetch, osrsHistFile, osrsReportFails, osrsRecord,
                 scoreVars, itemVars, rankVars, convertVars,
                 sorterVars, populateVars, historyVars, aggVars, storeVars, envVars, mainVars>>

\* runOSRSAutomated returns and main writes osrs-results.json; the history
\* file is read only if there is an item to analyse
RunOSRSAutomated ==
  /\ osrsPc = "start"
  /\ osrsFetch = "ok"
  /\ osrsHistFile.status # "corrupt" \/ AllItems = {}
  /\ \E order \in ShuffledItems :
       /\ osrsHistFile' = FileAfter(order, Len(order), osrsHistFile)
       /\ osrsRecord' = <<ResultsRecord(AnalyzeAll(order, osrsHistFile), Len(order))>>
  /\ osrsPc' = "report"
  /\ UNCHANGED <<osrsDb, osrsFetch, osrsReportFails, osrsExit,
                 scoreVars, itemVars, rankVars, convertVars,
                 sorterVars, populateVars, historyVars, aggVars, storeVars, envVars, mainVars>>

\* JSON.parse of the history file throws at the first item: the catch block
\* of main writes the error record and ends the process with code 1
RunOSRSAutomatedThrows ==
  /\ osrsPc = "start"
  /\ osrsFetch = "ok"
  /\ osrsHistFile.status = "corrupt"
  /\ AllItems # {}
  /\ osrsRecord' = <<ErrorRecord>>
  /\ osrsExit' = <<1>>
  /\ osrsPc' = "failed"
  /\ UNCHANGED <<osrsDb, osrsFetch, osrsHistFile, osrsReportFails,
                 scoreVars, itemVars, rankVars, convertVars,
                 sorterVars, populateVars, historyVars, aggVars, storeVars, envVars, mainVars>>

\* the report is written, the newsletter sent, main returns
WriteReport ==
  /\ osrsPc = "report"
  /\ ~osrsReportFails
  /\ osrsExit' = <<0>>
  /\ osrsPc' = "done"
  /\ UNCHANGED <<osrsDb, osrsFetch, osrsHistFile, osrsReportFails, osrsRecord,
                 scoreVars, itemVars, rankVars, convertVars,
                 sorterVars, populateVars, historyVars, aggVars, storeVars, envVars, mainVars>>

\* writing the report or sending the newsletter throws: the catch block
\* overwrites osrs-results.json with the error record
WriteReportThrows ==
  /\ osrsPc = "report"
  /\ osrsReportFails
  /\ osrsRecord' = <<ErrorRecord>>
  /\ osrsExit' = <<1>>
  /\ osrsPc' = "failed"
  /\ UNCHANGED <<osrsDb, osrsFetch, osrsHistFile, osrsReportFails,
                 scoreVars, itemVars, rankVars, convertVars,
                 sorterVars, populateVars, historyVars, aggVars, storeVars, envVars, mainVars>>

NextOsrs ==
  \/ FetchItemDatabaseFails
  \/ RunOSRSAutomated
  \/ RunOSRSAutomatedThrows
  \/ WriteReport
  \/ WriteReportThrows

InitOsrsSpec ==
  /\ IdleSync
  /\ IdleScore
  /\ IdleItem
  /\ IdleRank
  /\ IdleConvert
  /\ InitOsrs
  /\ IdleSorter
  /\ IdlePopulate
  /\ IdleHistory

SpecOsrs == InitOsrsSpec /\ [][NextOsrs]_vars

\* the names of the four shortlists of a results record
ShortlistNames == {"highRiskMembers", "lowRiskMembers", "highRiskF2P", "lowRiskF2P"}

\* the run completed: a results record with the shortlists and the counts
CompleteOutcome ==
  /\ osrsExit = <<0>>
  /\ osrsRecord # <<>>
  /\ ShortlistNames \subseteq DOMAIN osrsRecord[1]
  /\ {"totalAnalyzed", "totalChecked"} \subseteq DOMAIN osrsRecord[1]
  /\ "error" \notin DOMAIN osrsRecord[1]

\* the run ended early: a record with the reason, failed = true, a non-zero
\* exit code and no shortlist
FailedOutcome ==
  /\ osrsExit # <<>>
  /\ osrsExit # <<0>>
  /\ osrsRecord # <<>>
  /\ "error" \in DOMAIN osrsRecord[1]
  /\ osrsRecord[1].metadata.failed
  /\ ShortlistNames \cap DOMAIN osrsRecord[1] = {}

\* C19: every run of main that has ended has one of the two outcomes, the
\* results record of a complete run or the error record of a failed one.
C19_OneOfTwoOutcomes ==
  osrsPc \in {"done", "failed", "exited"} =>
    /\ CompleteOutcome \/ FailedOutcome
    /\ ~(CompleteOutcome /\ FailedOutcome)

\* C23: the results record of a run (the shortlists with their entries in
\* order, and the counts) is the one every ordering of the same items on
\* the same history gives.
C23_OrderIndependent ==
  [][(osrsPc = "start" /\ osrsPc' = "report") =>
       \A order \in ShuffledItems :
         osrsRecord' = <<ResultsRecord(AnalyzeAll(order, osrsHistFile), Len(order))>>]_vars

\* ===== main() of sortItemsAndRegions =====

\* number of orders the top region returns
MaxOrders == 3

\* data/eve-regions.json and data/eve-items.json before the run
RegionEntries ==
  <<[name |-> "Domain", id |-> 10], [name |-> "Forge", id |-> 20],
    [name |-> "Heimatar", id |-> 30]>>
ItemEntries == <<[name |-> "Pyerite", typeId |-> 2], [name |-> "Tritanium", typeId |-> 1]>>

\* the type ids orders carry: the two items of the file and an unknown one
OrderTypeIds == {1, 2, 3}

\* the X-Pages answers: the request fails, 1 page, 2 pages
PageAnswers == {<<>>, <<1>>, <<2>>}

InitSorter ==
  /\ sorterRegions = RegionEntries
  /\ sorterItems = ItemEntries
  /\ pageCounts \in [{RegionEntries[k].name : k \in 1..Len(RegionEntries)} -> PageAnswers]
  /\ topOrders \in UNION {[1..n -> OrderTypeIds] : n \in 0..MaxOrders}
  /\ sorterRegionsData = <<>>
  /\ sorterItemsData = <<>>
  /\ sortedRegionEntries = <<>>
  /\ sorterPc = "start"

\* fetchPageCount(regionId): 0 when the request fails
fetchPageCount(answer) == IF answer = <<>> THEN 0 ELSE answer[1]

\* Object.entries(regionsData).sort((a, b) => countB - countA)
SortRegionEntries(entries, counts) ==
  ArraySort(entries,
            [k \in 1..Len(entries) |-> NumNeg(Num(fetchPageCount(counts[entries[k].name])))])

\* itemOrderCounts[typeId]++ over the orders
ItemOrderCounts(orders) ==
  [typeId \in {orders[k] : k \in 1..Len(orders)} |->
     Cardinality({k \in 1..Len(orders) : orders[k] = typeId})]

\* Object.entries(itemOrderCounts): the type ids are integer keys, ascending
OrderCountEntries(counts) ==
  [k \in 1..Cardinality(DOMAIN counts) |->
     [typeId |-> IntegerKeys(DOMAIN counts)[k],
      count |-> counts[IntegerKeys(DOMAIN counts)[k]]]]

\* typeIdToName[typeId]: <<name>>, <<>> when undefined; the last entry of
\* the file with that type id gave the name
TypeIdToName(items, typeId) ==
  IF \E k \in 1..Len(items) : items[k].typeId = typeId
  THEN <<items[CHOOSE k \in 1..Len(items) :
                 /\ items[k].typeId = typeId
                 /\ \A j \in 1..Len(items) : items[j].typeId = typeId => j <= k].name>>
  ELSE <<>>

\* if (itemName)
IsKnownItem(e) == e.name # <<>>

\* Object.entries(itemOrderCounts).sort((a, b) => b[1] - a[1]).reduce(...):
\* obj[itemName] = parseInt(typeId) for the type ids that have a name
SortItemEntries(items, orders) ==
  LET entries == OrderCountEntries(ItemOrderCounts(orders))
      sorted == ArraySort(entries, [k \in 1..Len(entries) |-> NumNeg(Num(entries[k].count))])
      named == [k \in 1..Len(sorted) |->
                  [name |-> TypeIdToName(items, sorted[k].typeId),
                   typeId |-> sorted[k].typeId]]
      known == SelectSeq(named, IsKnownItem)
  IN [k \in 1..Len(known) |-> [name |-> known[k].name[1], typeId |-> known[k].typeId]]

\* the files are read, the page count of every region is fetched and the
\* region entries are sorted
FetchPageCounts ==
  /\ sorterPc = "start"
  /\ sorterRegionsData' = sorterRegions
  /\ sorterItemsData' = sorterItems
  /\ sortedRegionEntries' = SortRegionEntries(sorterRegions, pageCounts)
  /\ sorterPc' = "regions"
  /\ UNCHANGED <<sorterRegions, sorterItems, pageCounts, topOrders,
                 scoreVars, itemVars, rankVars, convertVars, osrsVars,
                 populateVars, historyVars, aggVars, storeVars, envVars, mainVars>>

\* the orders of the top region are fetched and counted, the items sorted,
\* and both files written
SortItemsAndSave ==
  /\ sorterPc = "regions"
  /\ sorterRegions' = sortedRegionEntries
  /\ sorterItems' = SortItemEntries(sorterItemsData, topOrders)
  /\ sorterPc' = "done"
  /\ UNCHANGED <<pageCounts, topOrders, sorterRegionsData, sorterItemsData,
                 sortedRegionEntries,
                 scoreVars, itemVars, rankVars, convertVars, osrsVars,
                 populateVars, historyVars, aggVars, storeVars, envVars, mainVars>>

NextSorter ==
  \/ FetchPageCounts
  \/ SortItemsAndSave

InitSorterSpec ==
  /\ IdleSync
  /\ IdleScore
  /\ IdleItem
  /\ IdleRank
  /\ IdleConvert
  /\ IdleOsrs
  /\ InitSorter
  /\ IdlePopulate
  /\ IdleHistory

SpecSorter == InitSorterSpec /\ [][NextSorter]_vars

\* the entries of a file as a set, and whether no name occurs twice
EntrySet(file) == {file[k] : k \in 1..Len(file)}

\* the sequence is in non-increasing order of count(entry)
NonIncreasing(file, count(_)) ==
  \A j, k \in 1..Len(file) : j < k => count(file[j]) >= count(file[k])

\* the page count of a region entry, the number of orders of an item entry
PagesOf(e) == fetchPageCount(pageCounts[e.name])
OrdersOf(e) == Cardinality({k \in 1..Len(topOrders) : topOrders[k] = e.typeId})

\* C25: after the run both files hold exactly the entries they held before,
\* the regions by non-increasing page count (0 for a failed request), the
\* items by non-increasing number of orders in the top region.
C25_SorterOnlyReorders ==
  sorterPc = "done" =>
    /\ Len(sorterRegions) = Len(sorterRegionsData)
    /\ EntrySet(sorterRegions) = EntrySet(sorterRegionsData)
    /\ NonIncreasing(sorterRegions, PagesOf)
    /\ Len(sorterItems) = Len(sorterItemsData)
    /\ EntrySet(sorterItems) = EntrySet(sorterItemsData)
    /\ NonIncreasing(sorterItems, OrdersOf)

\* ===== runEVEAutomated from the regional points to the shortlists =====

\* the entries of the regional series: those of the aggregation runs and a
\* second day without trade
RegionalEntries == Entries \cup {Entry(<<1, 0>>, Rat(10, 1), 12, 9, 0, 0)}

\* the analysis loop of runEVEAutomated over Object.keys(historyData)
AnalyzeHistory(hd) ==
  Pushed([k \in 1..Cardinality(DOMAIN hd) |->
            IF hd[IntegerKeys(DOMAIN hd)[k]] = <<>> THEN <<>>
            ELSE analyzeItem(hd[IntegerKeys(DOMAIN hd)[k]],
                             [id |-> IntegerKeys(DOMAIN hd)[k]])])

\* runEVEAutomated: the history is aggregated, every item analysed, and the
\* results are categorized
RunEVEAutomated ==
  /\ aggPc = "build"
  /\ rankPc = "collect"
  /\ aggregated' = aggregateRegionData(IntegerKeys(DOMAIN rawHistoryData), rawHistoryData)
  /\ results' = AnalyzeHistory(aggregated')
  /\ shortlists' = ShortlistsEVE(results')
  /\ rankPc' = "ranked"
  /\ UNCHANGED <<rawHistoryData, remerged, aggPc, osrsResults, osrsShortlists,
                 scoreVars, itemVars, convertVars, osrsVars, sorterVars,
                 populateVars, historyVars, storeVars, envVars, mainVars>>

\* the snapshot grows by one regional point while no analysis has run
AddRegionalEntry(regionId, typeId, entry) ==
  /\ rankPc = "collect"
  /\ AddEntry(regionId, typeId, entry)

NextEndToEnd ==
  \/ \E regionId \in {10, 20}, typeId \in TypeIds, entry \in RegionalEntries :
       AddRegionalEntry(regionId, typeId, entry)
  \/ RunEVEAutomated

SpecEndToEnd == InitAggSpec /\ [][NextEndToEnd]_vars

\* the entries of the two shortlists
Shortlisted ==
  {shortlists.highRisk[k] : k \in 1..Len(shortlists.highRisk)}
    \cup {shortlists.lowRisk[k] : k \in 1..Len(shortlists.lowRisk)}

\* C27: every shortlisted entry has a score that is a number in [0, 100]
\* and a finite volatility behind its risk level.
C27_ShortlistedScoresInRange ==
  rankPc = "ranked" =>
    \A e \in Shortlisted :
      /\ NumLe(Num(0), ParseFloat(e.investmentScore))
      /\ NumLe(ParseFloat(e.investmentScore), Num(100))
      /\ IsFinite(ParseFloat(e.volatility))

\* ===== the bulk population scripts: populateOsrsMarketHistory and
\* ===== populateEveMarketHistory =====

MaxTypes == 3

\* itemIds / typeIds: the ids the list request returned, in order
PopulateIds == [k \in 1..MaxTypes |-> k]

\* an id whose entry can be in the output file without being in the list
RetiredId == MaxTypes + 6

\* the entry an earlier run left in the output file, and the one this run
\* fetches
EarlierEntry(id) == [of |-> id, from |-> "file"]
FetchedEntry(id, body) == [of |-> id, from |-> body]

\* the output file before the run: absent, not JSON, or an object of entries
OutputFiles ==
  { [status |-> "missing", data |-> <<>>],
    [status |-> "corrupt", data |-> <<>>],
    [status |-> "ok", data |-> <<>>],
    [status |-> "ok", data |-> Put(<<>>, 1, EarlierEntry(1))],
    [status |-> "ok",
     data |-> Put(Put(<<>>, 1, EarlierEntry(1)), RetiredId, EarlierEntry(RetiredId))] }

\* the answers to one history request: status 0 is a fetch that rejects.
\* The body is what response.json() gives: "object" is a value of type
\* object other than the two below, "array" an array, "type not found" the
\* object {error: "Type not found!"}, "null" and "number" the values that
\* are not objects, "not json" a body json() throws on.
PopulateBodies == {"object", "array", "type not found", "null", "number", "not json"}
PopulateStatuses == {0, 200, 404, 429, 500}
PopulateAnswers == [status : PopulateStatuses, body : PopulateBodies]

ExitResult == [kind |-> "exit", data |-> "none"]
NullResult == [kind |-> "null", data |-> "none"]
DataResult(body) == [kind |-> "data", data |-> body]

\* fetchItemHistory of populateOsrsMarketHistory.js; "exit" stands for
\* process.exit(1), directly or through the catch of the caller
fetchItemHistory(answer) ==
  IF answer.status = 0 THEN ExitResult
  ELSE IF answer.status # 200 THEN ExitResult
  ELSE IF answer.body = "not json" THEN ExitResult
  ELSE IF answer.body \in {"null", "number"} THEN ExitResult
  ELSE DataResult(answer.body)

fetchTypeHistorySkippingErrors(answer) ==
  IF answer.status = 0 THEN ExitResult
  ELSE IF answer.status = 429 THEN ExitResult
  ELSE IF answer.status # 200 THEN NullResult
  ELSE IF answer.body = "not json" THEN ExitResult
  ELSE IF answer.body = "type not found" THEN NullResult
  ELSE IF answer.body # "array" THEN ExitResult
  ELSE DataResult(answer.body)

\* fetchTypeHistory of populateEveMarketHistory
fetchTypeHistory(answer) ==
  IF answer.status = 0 THEN ExitResult
  ELSE IF answer.status = 429 THEN ExitResult
  ELSE IF answer.status = 404 /\ answer.body = "type not found" THEN NullResult
  ELSE IF answer.status # 200 THEN ExitResult
  ELSE IF answer.body = "not json" THEN ExitResult
  ELSE IF answer.body = "type not found" THEN NullResult
  ELSE IF answer.body # "array" THEN ExitResult
  ELSE DataResult(answer.body)

FetchHistory(script, answer) ==
  IF script = "osrs" THEN fetchItemHistory(answer) ELSE fetchTypeHistory(answer)

InitPopulate ==
  /\ popScript \in {"osrs", "eve"}
  /\ popFile \in OutputFiles
  /\ popHistoryData = <<>>
  /\ popLoaded = popFile.data
  /\ popIndex = 0
  /\ popLog = <<>>
  /\ popExit = <<>>
  /\ popPc = "start"

\* the list request succeeds and the output file is loaded: a file that is
\* absent or does not parse leaves historyData = {}
LoadExisting ==
  /\ popPc = "start"
  /\ popHistoryData' = (IF popFile.status = "ok" THEN popFile.data ELSE <<>>)
  /\ popPc' = "loop"
  /\ UNCHANGED <<popScript, popFile, popLoaded, popIndex, popLog, popExit>>
  /\ UNCHANGED <<scoreVars, itemVars, rankVars, convertVars, osrsVars, sorterVars,
                 historyVars, aggVars, storeVars, envVars, mainVars>>

\* the list request fails: fetchItemList throws, fetchAllTypeIds exits
FetchListFails ==
  /\ popPc = "start"
  /\ popExit' = <<1>>
  /\ popPc' = "exited"
  /\ UNCHANGED <<popScript, popFile, popHistoryData, popLoaded, popIndex, popLog>>
  /\ UNCHANGED <<scoreVars, itemVars, rankVars, convertVars, osrsVars, sorterVars,
                 historyVars, aggVars, storeVars, envVars, mainVars>>

\* one turn of the loop: the request for the next id and what follows it
PopulateItem(answer) ==
  /\ popPc = "loop"
  /\ popIndex < Len(PopulateIds)
  /\ LET id == PopulateIds[popIndex + 1]
         history == FetchHistory(popScript, answer)
         stored == Put(popHistoryData, id, FetchedEntry(id, history.data))
     IN /\ popLog' = Append(popLog, [id |-> id, answer |-> answer, result |-> history.kind])
        /\ IF history.kind = "exit"
           THEN /\ popExit' = <<1>>
                /\ popPc' = "exited"
                /\ UNCHANGED <<popFile, popHistoryData, popIndex>>
           ELSE IF history.kind = "data"
           THEN /\ popHistoryData' = stored
                /\ popFile' = [status |-> "ok", data |-> stored]
                /\ popIndex' = popIndex + 1
                /\ UNCHANGED <<popExit, popPc>>
           ELSE /\ popIndex' = popIndex + 1
                /\ UNCHANGED <<popFile, popHistoryData, popExit, popPc>>
  /\ UNCHANGED <<popScript, popLoaded>>
  /\ UNCHANGED <<scoreVars, itemVars, rankVars, convertVars, osrsVars, sorterVars,
                 historyVars, aggVars, storeVars, envVars, mainVars>>

\* the loop is over and the process ends by itself
PopulateEnds ==
  /\ popPc = "loop"
  /\ popIndex = Len(PopulateIds)
  /\ popExit' = <<0>>
  /\ popPc' = "done"
  /\ UNCHANGED <<popScript, popFile, popHistoryData, popLoaded, popIndex, popLog>>
  /\ UNCHANGED <<scoreVars, itemVars, rankVars, convertVars, osrsVars, sorterVars,
                 historyVars, aggVars, storeVars, envVars, mainVars>>

NextPopulate ==
  \/ LoadExisting
  \/ FetchListFails
  \/ \E answer \in PopulateAnswers : PopulateItem(answer)
  \/ PopulateEnds

InitPopulateSpec ==
  /\ IdleSync
  /\ IdleScore
  /\ IdleItem
  /\ IdleRank
  /\ IdleConvert
  /\ IdleOsrs
  /\ IdleSorter
  /\ InitPopulate
  /\ IdleHistory

SpecPopulate == InitPopulateSpec /\ [][NextPopulate]_vars

\* the body a script stores as the history of an item
UsableBody(script, body) ==
  IF script = "osrs" THEN body \in {"object", "array", "type not found"}
  ELSE body = "array"

\* the 'Type not found' 404 of the EVE script
TypeNotFound404(script, answer) ==
  script = "eve" /\ answer.status = 404 /\ answer.body = "type not found"

\* the OK answer of the EVE script that carries the same error
TypeNotFoundOk(script, answer) ==
  script = "eve" /\ answer.status = 200 /\ answer.body = "type not found"

\* a rate-limit response, another non-OK response that is not the
\* 'Type not found' 404, or a body that is no history
Failure(script, answer) ==
  \/ answer.status \in {404, 429, 500} /\ ~TypeNotFound404(script, answer)
  \/ answer.status = 200 /\ ~UsableBody(script, answer.body)

\* the requests of the run that completed their item
CompletedAt ==
  {k \in 1..Len(popLog) :
     /\ popLog[k].answer.status = 200
     /\ UsableBody(popScript, popLog[k].answer.body)}

CompletedIds == {popLog[k].id : k \in CompletedAt}

RequestOf(id) == CHOOSE k \in CompletedAt : popLog[k].id = id

\* the entries the file held before the run, plus the entry of every completed item
ExpectedEntries ==
  [id \in (DOMAIN popLoaded) \cup CompletedIds |->
     IF id \in CompletedIds
     THEN FetchedEntry(id, popLog[RequestOf(id)].answer.body)
     ELSE popLoaded[id]]

\* the last request of the run ended the process with exit code 1
EndedAt(k) == k = Len(popLog) /\ popPc = "exited" /\ popExit = <<1>>

FileAsExpected == popFile.data = ExpectedEntries

\* C29 as stated: every failure, with the 'Type not found' 404 of EVE as
\* the only exception, ends the process with a non-zero exit before any
\* later request, and the file holds the earlier entries plus the entry of
\* every completed item.
C29_FailureEndsTheRun ==
  /\ \A k \in 1..Len(popLog) :
       Failure(popScript, popLog[k].answer) => EndedAt(k)
  /\ FileAsExpected

\* C29, amended: the EVE script skips a type on 'Type not found' whether the
\* answer is the 404 or an OK response carrying that error; every other
\* failure ends the process with a non-zero exit before any later request,
\* and the file holds the earlier entries plus the entry of every completed
\* item after every turn of the loop.
C29_FailureEndsTheRunButTypeNotFound ==
  /\ \A k \in 1..Len(popLog) :
       /\ Failure(popScript, popLog[k].answer) /\ ~TypeNotFoundOk(popScript, popLog[k].answer)
            => EndedAt(k)
       /\ TypeNotFound404(popScript, popLog[k].answer)
            \/ TypeNotFoundOk(popScript, popLog[k].answer)
            => popLog[k].result = "null" /\ popLog[k].id \notin CompletedIds
  /\ FileAsExpected

\* a run that kept an earlier entry, completed an item, skipped a type and
\* then was rate-limited
C29_Witness ==
  /\ popPc = "exited"
  /\ popExit = <<1>>
  /\ Len(popLog) = 3
  /\ popLog[1].result = "data"
  /\ popLog[2].result = "null"
  /\ popLog[3].answer.status = 429
  /\ RetiredId \in DOMAIN popFile.data
  /\ popFile.data[1] = FetchedEntry(1, "array")

\* ===== updateLocalHistory over the days =====

MaxDays == 2

\* the arguments of a call: the item, its name, today's price and volume
HistoryCalls ==
  [itemId : OsrsIds, itemName : {"name"}, currentPrice : {<<Num(10)>>}, volume : {100}]
    \cup [itemId : OsrsIds, itemName : {"renamed"}, currentPrice : {<<Num(12)>>},
          volume : {200}]

\* the history file is missing or holds entries written on earlier runs
InitHistory ==
  /\ osrsHistFile \in OsrsHistFiles
  /\ osrsHistFile.status # "corrupt"
  /\ clock = Today * PartsPerDay
  /\ lastCall = <<>>

\* one call of updateLocalHistory at the instant of the clock
UpdateLocalHistory(call) ==
  /\ osrsHistFile' = updateLocalHistory(osrsHistFile, TodayTimestamp(clock), call.itemId,
                                        call.itemName, call.currentPrice, call.volume)
  /\ lastCall' = <<[args |-> call, again |-> lastCall # <<>> /\ lastCall[1].args = call]>>
  /\ UNCHANGED <<clock, osrsDb, osrsFetch, osrsReportFails, osrsRecord, osrsExit, osrsPc>>
  /\ UNCHANGED <<scoreVars, itemVars, rankVars, convertVars, sorterVars, populateVars,
                 aggVars, storeVars, envVars, mainVars>>

\* time passes
Tick ==
  /\ clock < (Today + MaxDays) * PartsPerDay - 1
  /\ clock' = clock + 1
  /\ lastCall' = <<>>
  /\ UNCHANGED <<osrsVars, scoreVars, itemVars, rankVars, convertVars, sorterVars,
                 populateVars, aggVars, storeVars, envVars, mainVars>>

NextHistory ==
  \/ \E call \in HistoryCalls : UpdateLocalHistory(call)
  \/ Tick

InitHistorySpec ==
  /\ IdleSync
  /\ IdleScore
  /\ IdleItem
  /\ IdleRank
  /\ IdleConvert
  /\ IdleSorter
  /\ IdlePopulate
  /\ osrsDb = [id \in OsrsIds |-> <<>>]
  /\ osrsFetch = "ok"
  /\ osrsReportFails = FALSE
  /\ osrsRecord = <<>>
  /\ osrsExit = <<>>
  /\ osrsPc = "start"
  /\ InitHistory

SpecHistory == InitHistorySpec /\ [][NextHistory]_vars

\* the points of an object under other keys than `key`, in order
OtherPoints(object, key) == SelectSeq(object, LAMBDA point : point.key # key)

\* the points of an object under the key `key`
PointsAt(object, key) == SelectSeq(object, LAMBDA point : point.key = key)

\* the entries of the items other than itemId
OtherItems(data, itemId) == [id \in (DOMAIN data) \ {itemId} |-> data[id]]

\* the stored entry of an item, with no points if the item is not stored
StoredItem(file, itemId) == ItemOf(loadHistoricalData(file), itemId, "name")

\* the effect of the call `call` at the instant of the clock
UpsertOf(call) ==
  /\ osrsHistFile'.status = "ok"
  /\ call.itemId \in DOMAIN osrsHistFile'.data
  /\ PointsAt(osrsHistFile'.data[call.itemId].daily, TodayTimestamp(clock))
       = <<[key |-> TodayTimestamp(clock), price |-> call.currentPrice]>>
  /\ PointsAt(osrsHistFile'.data[call.itemId].volume, TodayTimestamp(clock))
       = <<[key |-> TodayTimestamp(clock), volume |-> call.volume]>>
  /\ OtherPoints(osrsHistFile'.data[call.itemId].daily, TodayTimestamp(clock))
       = OtherPoints(StoredItem(osrsHistFile, call.itemId).daily, TodayTimestamp(clock))
  /\ OtherPoints(osrsHistFile'.data[call.itemId].volume, TodayTimestamp(clock))
       = OtherPoints(StoredItem(osrsHistFile, call.itemId).volume, TodayTimestamp(clock))
  /\ OtherItems(osrsHistFile'.data, call.itemId)
       = OtherItems(loadHistoricalData(osrsHistFile), call.itemId)
  /\ Len(osrsHistFile'.data[call.itemId].daily)
       <= Len(StoredItem(osrsHistFile, call.itemId).daily) + 1
  /\ updateLocalHistory(osrsHistFile', TodayTimestamp(clock), call.itemId, call.itemName,
                        call.currentPrice, call.volume) = osrsHistFile'

\* C30: a call of updateLocalHistory stores the price and the volume under
\* the key of today's UTC midnight, once; it changes no point of another day
\* and no other item, and the same call again on that day changes nothing.
C30_UpsertOfOnePoint ==
  [][lastCall' # <<>> /\ lastCall' # lastCall
       => /\ UpsertOf(lastCall'[1].args)
          /\ lastCall'[1].again => osrsHistFile' = osrsHistFile]_vars

\* an item with a point of the day before, updated today and twice with the
\* same values the day after
C30_Witness ==
  /\ lastCall # <<>>
  /\ lastCall[1].again
  /\ lastCall[1].args.itemId = 1
  /\ clock = (Today + 1) * PartsPerDay
  /\ osrsHistFile.status = "ok"
  /\ 1 \in DOMAIN osrsHistFile.data
  /\ osrsHistFile.data[1].daily
       = <<[key |-> DateOf(Yesterday), price |-> <<Num(10)>>],
           [key |-> DateOf(Today), price |-> <<Num(12)>>],
           [key |-> DateOf(Today + 1), price |-> <<Num(10)>>]>>
  /\ osrsHistFile.data[1].volume
       = <<[key |-> DateOf(Yesterday), volume |-> 100],
           [key |-> DateOf(Today), volume |-> 200],
           [key |-> DateOf(Today + 1), volume |-> 100]>>

====
